---- MODULE Spec2Model ----
(***************************************************************************)
(* A model of the retrieval pipeline of python-law: the in-memory vector   *)
(* store (app/services/vector_store_memory.py), its JSON snapshot, and the *)
(* document registry that feeds it (app/services/document_service.py).     *)
(*                                                                         *)
(* Python dicts keep insertion order, and the search breaks ties by that   *)
(* order, so a dict is modelled as a sequence of <<key, value>> pairs with *)
(* pairwise distinct keys.  Similarity scores are kept in hundredths: the  *)
(* embedding values below all have integer norms 1 or 5, so every cosine   *)
(* is an exact multiple of 1/25.                                           *)
(***************************************************************************)
EXTENDS Integers, Sequences, FiniteSets, TLC

\* ---------------------------------------------------------------- bounds
MaxChunks == 2      \* chunks per add_document_chunks call
MaxStored == 2      \* cap on the number of chunk ids held by the store
MaxIndexLen == 2    \* cap on the length of one document_index list
MaxLimit == 2       \* largest n_results passed to a search
MaxScope == 1       \* longest document_ids list passed to a search
MaxUploads == 2     \* uploads started in one run
MaxInflight == 2    \* uploads suspended at an await at the same time
MaxBatch == 21      \* chunks of the one upsert behind a loaded snapshot
MaxTopK == 1        \* largest top_k passed to a retrieve
MaxTime == 2        \* clock readings the session service stores in one run
MaxUuids == 1       \* uuid4 calls the session service makes in one run
MaxTurns == 2       \* chat turns started in one run
MaxTextLen == 7     \* longest text passed to chunk_text
ChunkSize == 3      \* TextChunker.chunk_size, scaled down
Overlap == 1        \* TextChunker.overlap, scaled down

\* ------------------------------------------------- numbers of the source
MaxCandidates == 20   \* the cap on n_results, retrieval_service.py line 59
PreviewLength == 100  \* the length of chunk_preview, line 86
SampleChunks == 3       \* chunks _is_legal_document samples, chat_service.py line 100
ChatTopK == 5           \* top_k of a chat turn, chat_service.py line 168
ChatMinSimilarity == 30 \* its min_similarity, in hundredths, line 169
RelevantScore == 50     \* the score above which a chunk counts as relevant, line 337

\* ------------------------------------------------------- input alphabets
DocIds == {"1", "2"}
EmbeddingValues == {<<1, 0>>, <<3, 4>>, <<1>>}  \* what the provider may return
SearchValues == {<<1, 0>>, <<3, 4>>}            \* the same, for SpecSearch
UploadValues == {<<1, 0>>}                      \* the same, for SpecDoc
Filenames == {"", "a.txt", "a.exe"}             \* file.filename of an upload
QueryValues == {<<1, 0>>}                       \* what encode_text may return
None == "None"
NoMetadata == [is_none |-> TRUE]              \* document_metadata = None
NoList == [is_none |-> TRUE, items |-> <<>>]  \* document_ids = None
ListOf(items) == [is_none |-> FALSE, items |-> items]
MinSimilarities == {70}                       \* min_similarity, in hundredths

\* the truth value Python gives a document_ids argument
Truthy(document_ids) == ~document_ids.is_none /\ document_ids.items # <<>>

VARIABLES
    embeddings,      \* self.embeddings      {chunk_id: vector}
    documents,       \* self.documents       {chunk_id: text}
    metadatas,       \* self.metadatas       {chunk_id: metadata}
    document_index,  \* self.document_index  {document_id: [chunk_id]}
    storage_file,    \* contents of memory_vector_store.json
    save_failed,     \* the last _save_data of this process logged an error
    add_call,        \* the add_document_chunks call suspended in encode_batch
    search_call,     \* the search_similar_chunks call suspended in encode_text
    retrieve_call,   \* the retrieve_relevant_chunks call suspended in its search
    ret,             \* what the last step returned: the call and its result
    service_documents,  \* DocumentService.documents  {document_id: Document}
    documents_file,     \* contents of documents.json
    upload_dir,         \* names of the files in settings.upload_dir
    uuid_count,         \* uuid4 calls made so far
    upload_calls,       \* the upload_and_process_document calls
    status_log,         \* {document_id: the values assigned to its status so far}
    sessions,           \* ChatService.sessions  {session_id: ChatSession}
    sessions_file,      \* contents of sessions.json
    now,                \* the reading of datetime.now()
    chat_calls,         \* the process_chat_message calls
    chunk_call          \* the chunk_text call about to run: its arguments

doc_vars == <<service_documents, documents_file, upload_dir, uuid_count,
              upload_calls, status_log>>

chat_vars == <<sessions, sessions_file, now, chat_calls>>

text_vars == <<chunk_call>>

vars == <<embeddings, documents, metadatas, document_index, storage_file,
          save_failed, add_call, search_call, retrieve_call, ret,
          service_documents,
          documents_file, upload_dir, uuid_count, upload_calls, status_log,
          sessions, sessions_file, now, chat_calls, chunk_call>>

\* ------------------------------------------------------------ Python dict
DictKeys(d) == [i \in 1..Len(d) |-> d[i][1]]

DictKeySet(d) == {d[i][1] : i \in 1..Len(d)}

DictHas(d, k) == \E i \in 1..Len(d) : d[i][1] = k

DictGet(d, k) == d[CHOOSE i \in 1..Len(d) : d[i][1] = k][2]

DictSet(d, k, v) ==
    IF DictHas(d, k)
    THEN [i \in 1..Len(d) |-> IF d[i][1] = k THEN <<k, v>> ELSE d[i]]
    ELSE Append(d, <<k, v>>)

DictPop(d, k) == SelectSeq(d, LAMBDA p : p[1] # k)

SeqToSet(s) == {s[i] : i \in 1..Len(s)}

\* ------------------------------------------------------------ the chunks
\* str.split() of a text held as a sequence of characters: the number of
\* maximal runs of non-blank characters
RECURSIVE WordCount(_)
WordCount(text) ==
    IF text = <<>> THEN 0
    ELSE (IF Head(text) # " " /\ (Len(text) = 1 \/ text[2] = " ") THEN 1 ELSE 0)
         + WordCount(Tail(text))

\* str.strip() of a text whose whitespace is the blank
Strip(text) ==
    IF \A i \in 1..Len(text) : text[i] = " " THEN <<>>
    ELSE LET first == CHOOSE i \in 1..Len(text) :
                          text[i] # " " /\ \A j \in 1..(i - 1) : text[j] = " "
             last == CHOOSE i \in 1..Len(text) :
                         text[i] # " " /\ \A j \in (i + 1)..Len(text) : text[j] = " "
         IN  SubSeq(text, first, last)

ChunkId(document_id, chunk_index) ==
    document_id \o "_chunk_" \o ToString(chunk_index)

\* TextChunker._create_chunk; the text handed over is already stripped
CreateChunk(content, document_id, chunk_index) ==
    [chunk_id |-> ChunkId(document_id, chunk_index),
     document_id |-> document_id,
     content |-> Strip(content),
     page_number |-> None,
     chunk_index |-> chunk_index]

ChunkText(chunk_index) == <<"c", " ", ToString(chunk_index)>>

\* the chunk list chunk_text returns for a text that makes n chunks
ChunksOf(document_id, n) ==
    [i \in 1..n |-> CreateChunk(ChunkText(i - 1), document_id, i - 1)]

DocumentMetadataOf(document_id) ==
    [original_filename |-> "f" \o document_id \o ".txt",
     document_type |-> "txt",
     upload_timestamp |-> "t"]

\* ----------------------------------------------------------- TextChunker
\* the characters of the texts of the model: a letter, a sentence end and
\* whitespace
Alphabet == {"a", ".", " "}

Texts(n) == UNION {[1..k -> Alphabet] : k \in 0..n}

\* _split_into_sentences, line 70: re.split(r'(?<=[.!?])\s+', text) cuts the
\* text at every run of whitespace that follows a sentence end
RECURSIVE SplitPieces(_)
SplitPieces(text) ==
    LET breaks == {i \in 2..Len(text) : text[i] = " " /\ text[i - 1] = "."}
    IN  IF breaks = {} THEN <<text>>
        ELSE LET i == CHOOSE b \in breaks : \A c \in breaks : b <= c
                 j == CHOOSE e \in i..Len(text) :
                          /\ \A k \in i..e : text[k] = " "
                          /\ e = Len(text) \/ text[e + 1] # " "
             IN  <<SubSeq(text, 1, i - 1)>>
                     \o SplitPieces(SubSeq(text, j + 1, Len(text)))

\* _split_into_sentences, lines 67-71
SplitIntoSentences(text) ==
    LET pieces == SplitPieces(text)
        stripped == [i \in 1..Len(pieces) |-> Strip(pieces[i])]
    IN  SelectSeq(stripped, LAMBDA s : s # <<>>)

\* an overlap that takes the whole chunk along
GetOverlapTextWhole(text) == text

\* _get_overlap_text, lines 73-77
GetOverlapText(text) ==
    IF Len(text) <= Overlap THEN text
    ELSE SubSeq(text, Len(text) - Overlap + 1, Len(text))

\* a test that lets an empty current_chunk be saved
StartsNewChunkUnguarded(current_chunk, sentence) ==
    Len(current_chunk \o sentence) > ChunkSize

\* line 46
StartsNewChunk(current_chunk, sentence) ==
    Len(current_chunk \o sentence) > ChunkSize /\ current_chunk # <<>>

\* lines 45-57: the loop over the sentences
RECURSIVE ChunkLoop(_, _, _, _, _)
ChunkLoop(sentences, current_chunk, chunk_index, chunks, document_id) ==
    IF sentences = <<>>
    THEN [chunks |-> chunks, current_chunk |-> current_chunk,
          chunk_index |-> chunk_index]
    ELSE LET sentence == Head(sentences)
         IN  IF StartsNewChunk(current_chunk, sentence)
             THEN ChunkLoop(Tail(sentences),
                            GetOverlapText(current_chunk) \o sentence,
                            chunk_index + 1,
                            Append(chunks, CreateChunk(current_chunk, document_id,
                                                       chunk_index)),
                            document_id)
             ELSE ChunkLoop(Tail(sentences), current_chunk \o sentence \o <<" ">>,
                            chunk_index, chunks, document_id)

\* chunk_text, lines 32-65
ChunkTextBody(text, document_id) ==
    IF text = <<>> THEN <<>>
    ELSE LET loop == ChunkLoop(SplitIntoSentences(text), <<>>, 0, <<>>, document_id)
         IN  IF Strip(loop.current_chunk) # <<>>
             THEN Append(loop.chunks,
                         CreateChunk(loop.current_chunk, document_id,
                                     loop.chunk_index))
             ELSE loop.chunks

\* ------------------------------------------------------- the vector store
Store == [embeddings |-> embeddings, documents |-> documents,
          metadatas |-> metadatas, document_index |-> document_index]

EmptyStore == [embeddings |-> <<>>, documents |-> <<>>,
               metadatas |-> <<>>, document_index |-> <<>>]

\* lines 81-101: the metadata stored with a chunk (created_at, a wall-clock
\* string nothing reads, is left out)
ChunkMetadata(chunk, document_metadata) ==
    LET base == [document_id |-> chunk.document_id,
                 chunk_index |-> chunk.chunk_index,
                 char_count |-> Len(chunk.content),
                 word_count |-> WordCount(chunk.content),
                 embedding_service |-> "cloud",
                 vector_store |-> "memory"]
        paged == IF chunk.page_number # None
                 THEN base @@ [page_number |-> chunk.page_number]
                 ELSE base
    IN  IF document_metadata # NoMetadata
        THEN paged @@
             [original_filename |-> document_metadata.original_filename,
              document_type |-> document_metadata.document_type,
              upload_timestamp |-> document_metadata.upload_timestamp]
        ELSE paged

\* lines 72-108: one round of the store loop
StoreChunk(st, chunk, embedding, document_metadata) ==
    LET idx == IF DictHas(st.document_index, chunk.document_id)
               THEN st.document_index
               ELSE DictSet(st.document_index, chunk.document_id, <<>>)
    IN  [embeddings |-> DictSet(st.embeddings, chunk.chunk_id, embedding),
         documents |-> DictSet(st.documents, chunk.chunk_id, chunk.content),
         metadatas |-> DictSet(st.metadatas, chunk.chunk_id,
                               ChunkMetadata(chunk, document_metadata)),
         document_index |->
             DictSet(idx, chunk.document_id,
                     Append(DictGet(idx, chunk.document_id), chunk.chunk_id))]

\* lines 71-108: the store loop; embeddings[i] raises IndexError when the
\* provider returned fewer vectors than there are chunks, and the rounds
\* already made stay
RECURSIVE StoreLoop(_, _, _, _, _)
StoreLoop(st, chunks, embs, document_metadata, i) ==
    IF i > Len(chunks) THEN [st |-> st, exc |-> FALSE]
    ELSE IF i > Len(embs) THEN [st |-> st, exc |-> TRUE]
    ELSE StoreLoop(StoreChunk(st, chunks[i], embs[i], document_metadata),
                   chunks, embs, document_metadata, i + 1)

\* ------------------------------------------------------------ persistence
\* json.dump of a dict writes its items in insertion order; json.load
\* inserts them one by one into a new dict
RECURSIVE JsonLoadObject(_, _)
JsonLoadObject(items, d) ==
    IF items = <<>> THEN d
    ELSE JsonLoadObject(Tail(items), DictSet(d, Head(items)[1], Head(items)[2]))

JsonDumpObject(d) == [i \in 1..Len(d) |-> <<d[i][1], d[i][2]>>]

NoFile == [state |-> "absent"]
TruncatedFile == [state |-> "truncated"]

\* lines 259-267: the snapshot _save_data writes
Snapshot(st) ==
    [state |-> "written",
     embeddings |-> JsonDumpObject(st.embeddings),
     documents |-> JsonDumpObject(st.documents),
     metadatas |-> JsonDumpObject(st.metadatas),
     document_index |-> JsonDumpObject(st.document_index)]

SaveOutcomes == {"ok", "write_error"}

\* _save_data: the file after the call.  open(file, 'w') empties the file, so
\* a write that fails leaves it truncated; the error is logged and swallowed.
SaveData(st, file, outcome) ==
    IF outcome = "ok" THEN Snapshot(st) ELSE TruncatedFile

\* a load that leaves document_index empty
LoadDataWithoutIndex(file) ==
    IF file.state = "written"
    THEN [embeddings |-> JsonLoadObject(file.embeddings, <<>>),
          documents |-> JsonLoadObject(file.documents, <<>>),
          metadatas |-> JsonLoadObject(file.metadatas, <<>>),
          document_index |-> <<>>]
    ELSE EmptyStore

\* _load_data: no file keeps the empty maps, a file json.load rejects
\* resets them
LoadData(file) ==
    IF file.state = "written"
    THEN [embeddings |-> JsonLoadObject(file.embeddings, <<>>),
          documents |-> JsonLoadObject(file.documents, <<>>),
          metadatas |-> JsonLoadObject(file.metadatas, <<>>),
          document_index |-> JsonLoadObject(file.document_index, <<>>)]
    ELSE EmptyStore

\* ------------------------------------------------------------- similarity
RECURSIVE Dot(_, _)
Dot(a, b) == IF a = <<>> THEN 0 ELSE Head(a) * Head(b) + Dot(Tail(a), Tail(b))

\* x ** 0.5 of a perfect square
Sqrt(n) == CHOOSE r \in 0..n : r * r = n

\* _dot_product_similarity, in hundredths
DotProductSimilarity(vec1, vec2) ==
    IF Len(vec1) # Len(vec2) THEN 0
    ELSE LET magnitude1 == Sqrt(Dot(vec1, vec1))
             magnitude2 == Sqrt(Dot(vec2, vec2))
         IN  IF magnitude1 = 0 \/ magnitude2 = 0 THEN 0
             ELSE (100 * Dot(vec1, vec2)) \div (magnitude1 * magnitude2)

\* lines 136-142: the candidate list of a search
RECURSIVE ScopedCandidates(_, _)
ScopedCandidates(st, document_ids) ==
    IF document_ids = <<>> THEN <<>>
    ELSE (IF DictHas(st.document_index, Head(document_ids))
          THEN DictGet(st.document_index, Head(document_ids))
          ELSE <<>>) \o ScopedCandidates(st, Tail(document_ids))

\* a search that ignores its scope
CandidatesUnscoped(st, document_ids) == DictKeys(st.embeddings)

Candidates(st, document_ids) ==
    IF ~document_ids.is_none /\ document_ids.items # <<>>
    THEN ScopedCandidates(st, document_ids.items)
    ELSE DictKeys(st.embeddings)

\* lines 149-155: (chunk_id, similarity) of the candidates that have an
\* embedding
RECURSIVE Similarities(_, _, _)
Similarities(st, query_embedding, candidates) ==
    IF candidates = <<>> THEN <<>>
    ELSE (IF DictHas(st.embeddings, Head(candidates))
          THEN << <<Head(candidates),
                    DotProductSimilarity(query_embedding,
                                         DictGet(st.embeddings, Head(candidates)))>> >>
          ELSE <<>>) \o Similarities(st, query_embedding, Tail(candidates))

\* line 158: list.sort(key=score, reverse=True) is stable: an item goes
\* behind every item sorted so far whose score is at least its own
\* an unstable sort: an item goes in front of the items of equal score
InsertDescendingUnstable(sorted, x) ==
    LET n == Cardinality({i \in 1..Len(sorted) : sorted[i][2] > x[2]})
    IN  SubSeq(sorted, 1, n) \o <<x>> \o SubSeq(sorted, n + 1, Len(sorted))

InsertDescending(sorted, x) ==
    LET n == Cardinality({i \in 1..Len(sorted) : sorted[i][2] >= x[2]})
    IN  SubSeq(sorted, 1, n) \o <<x>> \o SubSeq(sorted, n + 1, Len(sorted))

\* a search that leaves the candidates in the order it met them
SortKeepsOrder(items, sorted) == sorted \o items

RECURSIVE SortDescending(_, _)
SortDescending(items, sorted) ==
    IF items = <<>> THEN sorted
    ELSE SortDescending(Tail(items), InsertDescending(sorted, Head(items)))

\* lines 161-169: the result rows; a chunk id without content or metadata
\* raises KeyError
FormatResults(st, top) ==
    IF \E i \in 1..Len(top) :
          ~DictHas(st.documents, top[i][1]) \/ ~DictHas(st.metadatas, top[i][1])
    THEN [exc |-> TRUE, value |-> None]
    ELSE [exc |-> FALSE,
          value |-> [i \in 1..Len(top) |->
                        [content |-> DictGet(st.documents, top[i][1]),
                         metadata |-> DictGet(st.metadatas, top[i][1]),
                         similarity_score |-> top[i][2],
                         distance |-> 100 - top[i][2],
                         rank |-> i]]]

Min(a, b) == IF a < b THEN a ELSE b

\* lines 135-172: search_similar_chunks after the query embedding arrived
SearchBody(st, query_embedding, n_results, document_ids) ==
    LET candidate_chunk_ids == Candidates(st, document_ids)
        similarities ==
            SortDescending(Similarities(st, query_embedding, candidate_chunk_ids),
                           <<>>)
    IN  IF candidate_chunk_ids = <<>> THEN [exc |-> FALSE, value |-> <<>>]
        ELSE FormatResults(st, SubSeq(similarities, 1,
                                      Min(n_results, Len(similarities))))

\* an except clause that logs and raises again
Reraised(body, fallback) ==
    IF body.exc THEN [value |-> None, raised |-> TRUE]
    ELSE [value |-> body.value, raised |-> FALSE]

\* the try/except around a method body: an exception is logged and the
\* fallback value returned
Caught(body, fallback) ==
    IF body.exc THEN [value |-> fallback, raised |-> FALSE]
    ELSE [value |-> body.value, raised |-> FALSE]

\* get_collection_stats()["total_chunks"]
TotalChunks(st) == Len(st.embeddings)

\* ---------------------------------------------------------------- inputs
\* what encode_batch can hand back for n texts: an exception, or a list of
\* vectors, possibly shorter than the list of texts
RECURSIVE VectorLists(_, _)
VectorLists(values, n) ==
    IF n = 0 THEN {<<>>}
    ELSE VectorLists(values, n - 1) \cup
         {Append(l, v) : l \in {x \in VectorLists(values, n - 1) : Len(x) = n - 1},
                         v \in values}

Raised == [error |-> TRUE, value |-> <<>>]
Returned(v) == [error |-> FALSE, value |-> v]

EncodeBatchOutcomes(values, n) ==
    {Raised} \cup {Returned(l) : l \in VectorLists(values, n)}

\* encode_text: embeddings[0] if embeddings else []
EncodeTextOutcomes(values) ==
    {Raised} \cup {Returned(v) : v \in values \cup {<<>>}}

RECURSIVE Scopes(_)
Scopes(n) ==
    IF n = 0 THEN {<<>>}
    ELSE Scopes(n - 1) \cup
         {Append(l, d) : l \in {x \in Scopes(n - 1) : Len(x) = n - 1}, d \in DocIds}

Idle == [pc |-> "idle"]
NoReturn == [op |-> "none"]   \* the last step suspended a call at an await
Done == [pc |-> "done"]   \* a call that has returned or raised

\* ----------------------------------------------------------------- Init
Init ==
    /\ embeddings = <<>>
    /\ documents = <<>>
    /\ metadatas = <<>>
    /\ document_index = <<>>
    /\ storage_file = NoFile
    /\ save_failed = FALSE
    /\ add_call = Idle
    /\ search_call = Idle
    /\ retrieve_call = Idle
    /\ ret = [op |-> "init"]
    /\ service_documents = <<>>
    /\ documents_file = NoFile
    /\ upload_dir = {}
    /\ uuid_count = 0
    /\ upload_calls = [t \in 1..MaxUploads |-> Idle]
    /\ status_log = <<>>
    /\ sessions = <<>>
    /\ sessions_file = NoFile
    /\ now = 0
    /\ chat_calls = [t \in 1..MaxTurns |-> Idle]
    /\ chunk_call = Idle

SetStore(st) ==
    /\ embeddings' = st.embeddings
    /\ documents' = st.documents
    /\ metadatas' = st.metadatas
    /\ document_index' = st.document_index

UnchangedStore == UNCHANGED <<embeddings, documents, metadatas, document_index>>

\* -------------------------------------------------- add_document_chunks
\* lines 57-68: up to the await of encode_batch
AddDocumentChunks(document_id, n) ==
    LET chunks == ChunksOf(document_id, n)
        indexed == IF DictHas(document_index, document_id)
                   THEN Len(DictGet(document_index, document_id)) ELSE 0
        fresh == {i \in 1..n : ~DictHas(embeddings, chunks[i].chunk_id)}
    IN  /\ add_call = Idle
        /\ indexed + n <= MaxIndexLen
        /\ Len(embeddings) + Cardinality(fresh) <= MaxStored
        /\ IF chunks = <<>>
           THEN /\ ret' = [op |-> "add", chunks |-> chunks,
                           provider_failed |-> FALSE,
                           value |-> FALSE, raised |-> FALSE]
                /\ UNCHANGED add_call
           ELSE /\ add_call' = [pc |-> "encode_batch", chunks |-> chunks,
                                document_metadata |-> DocumentMetadataOf(document_id)]
                /\ ret' = NoReturn
        /\ UnchangedStore
        /\ UNCHANGED <<storage_file, save_failed, search_call, retrieve_call>>
        /\ UNCHANGED <<doc_vars, chat_vars, text_vars>>

\* lines 68-118 as a function of what encode_batch brought: the maps, the
\* file and the returned value
AddBody(st, file, chunks, document_metadata, encoded, save) ==
    IF encoded.error
    THEN [st |-> st, file |-> file, saved |-> FALSE, exc |-> TRUE, value |-> None]
    ELSE LET loop == StoreLoop(st, chunks, encoded.value, document_metadata, 1)
         IN  IF loop.exc
             THEN [st |-> loop.st, file |-> file, saved |-> FALSE,
                   exc |-> TRUE, value |-> None]
             ELSE [st |-> loop.st, file |-> SaveData(loop.st, file, save),
                   saved |-> TRUE, exc |-> FALSE, value |-> TRUE]

AddDocumentChunksResume(encoded, save) ==
    /\ add_call.pc = "encode_batch"
    /\ Len(encoded.value) <= Len(add_call.chunks)
    /\ LET body == AddBody(Store, storage_file, add_call.chunks,
                           add_call.document_metadata, encoded, save)
           out == Caught(body, FALSE)
       IN  /\ SetStore(body.st)
           /\ storage_file' = body.file
           /\ save_failed' = IF body.saved THEN save # "ok" ELSE save_failed
           /\ ret' = [op |-> "add", chunks |-> add_call.chunks,
                      provider_failed |-> encoded.error,
                      value |-> out.value, raised |-> out.raised]
    /\ add_call' = Idle
    /\ UNCHANGED <<search_call, retrieve_call>>
    /\ UNCHANGED <<doc_vars, chat_vars, text_vars>>

\* ------------------------------------------------ delete_document_chunks
RECURSIVE PopAll(_, _)
PopAll(d, keys) == IF keys = <<>> THEN d ELSE PopAll(DictPop(d, Head(keys)), Tail(keys))

\* a delete that forgets the metadata map
DeleteBodyKeepsMetadata(st, document_id) ==
    LET chunk_ids == DictGet(st.document_index, document_id)
    IN  [embeddings |-> PopAll(st.embeddings, chunk_ids),
         documents |-> PopAll(st.documents, chunk_ids),
         metadatas |-> st.metadatas,
         document_index |-> DictPop(st.document_index, document_id)]

\* a delete whose loop stops after the first chunk id
DeleteBodyFirstOnly(st, document_id) ==
    LET chunk_ids == SubSeq(DictGet(st.document_index, document_id), 1, 1)
    IN  [embeddings |-> PopAll(st.embeddings, chunk_ids),
         documents |-> PopAll(st.documents, chunk_ids),
         metadatas |-> PopAll(st.metadatas, chunk_ids),
         document_index |-> DictPop(st.document_index, document_id)]

\* lines 185-194
DeleteBody(st, document_id) ==
    LET chunk_ids == DictGet(st.document_index, document_id)
    IN  [embeddings |-> PopAll(st.embeddings, chunk_ids),
         documents |-> PopAll(st.documents, chunk_ids),
         metadatas |-> PopAll(st.metadatas, chunk_ids),
         document_index |-> DictPop(st.document_index, document_id)]

\* ret keeps the maps as the call found them
DeleteDocumentChunks(document_id, save) ==
    /\ IF ~DictHas(document_index, document_id)
       THEN /\ ret' = [op |-> "delete", document_id |-> document_id,
                       before |-> Store,
                       value |-> FALSE, raised |-> FALSE]
            /\ UnchangedStore
            /\ UNCHANGED <<storage_file, save_failed>>
       ELSE /\ SetStore(DeleteBody(Store, document_id))
            /\ storage_file' = SaveData(DeleteBody(Store, document_id),
                                        storage_file, save)
            /\ save_failed' = (save # "ok")
            /\ ret' = [op |-> "delete", document_id |-> document_id,
                       before |-> Store,
                       value |-> TRUE, raised |-> FALSE]
    /\ UNCHANGED <<add_call, search_call, retrieve_call>>
    /\ UNCHANGED <<doc_vars, chat_vars, text_vars>>

\* ------------------------------------------------------ reset_collection
\* a reset whose result tells whether the write went through
ResetCollectionPropagating(save) ==
    /\ SetStore(EmptyStore)
    /\ storage_file' = SaveData(EmptyStore, storage_file, save)
    /\ save_failed' = (save # "ok")
    /\ ret' = [op |-> "reset", value |-> (save = "ok"), raised |-> FALSE]
    /\ UNCHANGED <<add_call, search_call, retrieve_call>>
    /\ UNCHANGED <<doc_vars, chat_vars, text_vars>>

ResetCollection(save) ==
    /\ SetStore(EmptyStore)
    /\ storage_file' = SaveData(EmptyStore, storage_file, save)
    /\ save_failed' = (save # "ok")
    /\ ret' = [op |-> "reset", value |-> TRUE, raised |-> FALSE]
    /\ UNCHANGED <<add_call, search_call, retrieve_call>>
    /\ UNCHANGED <<doc_vars, chat_vars, text_vars>>

\* ------------------------------------------------ search_similar_chunks
\* lines 127-133: up to the await of encode_text.  The arguments are inputs
\* the body reads only after the await, so they are drawn when it resumes.
SearchSimilarChunks ==
    /\ search_call = Idle
    /\ IF embeddings = <<>>
       THEN /\ ret' = [op |-> "search", value |-> <<>>, raised |-> FALSE,
                       empty |-> TRUE]
            /\ UNCHANGED search_call
       ELSE /\ search_call' = [pc |-> "encode_text"]
            /\ ret' = NoReturn
    /\ UnchangedStore
    /\ UNCHANGED <<storage_file, save_failed, add_call, retrieve_call>>
    /\ UNCHANGED <<doc_vars, chat_vars, text_vars>>

\* lines 133-176 as a function of what encode_text brought
SearchOutcome(st, encoded, n_results, document_ids) ==
    Caught(IF encoded.error THEN [exc |-> TRUE, value |-> None]
           ELSE SearchBody(st, encoded.value, n_results, document_ids),
           <<>>)

SearchSimilarChunksResume(document_ids, n_results, encoded) ==
    /\ search_call.pc = "encode_text"
    /\ LET out == SearchOutcome(Store, encoded, n_results, document_ids)
       IN  ret' = [op |-> "search", document_ids |-> document_ids,
                   n_results |-> n_results, encoded |-> encoded,
                   value |-> out.value, raised |-> out.raised,
                   empty |-> FALSE]
    /\ search_call' = Idle
    /\ UnchangedStore
    /\ UNCHANGED <<storage_file, save_failed, add_call, retrieve_call>>
    /\ UNCHANGED <<doc_vars, chat_vars, text_vars>>

\* ---------------------------------------------- retrieve_relevant_chunks
\* lines 38-53: the memory store has no attribute `collection`, so the
\* lookup of every document id raises AttributeError and a call without
\* document ids searches with None
SearchDocumentIds(document_ids) ==
    IF Truthy(document_ids) THEN document_ids ELSE NoList

\* an over-fetch without the cap of line 59
NResultsUncapped(top_k) == top_k * 2

\* line 59
NResults(top_k) == Min(top_k * 2, MaxCandidates)

\* line 86: content[:100] + "..."
Preview(content) ==
    SubSeq(content, 1, Min(PreviewLength, Len(content))) \o <<".", ".", ".">>

\* lines 83-87
DebugInfo(chunk, i) ==
    [rank |-> i,
     original_similarity |-> chunk.similarity_score,
     chunk_preview |-> Preview(chunk.content)]

\* a retrieve without the threshold of lines 71-74
RetrieveBodyUnfiltered(similar_chunks, top_k, min_similarity) ==
    IF similar_chunks = <<>> THEN <<>>
    ELSE LET final_chunks ==
                 SubSeq(similar_chunks, 1, Min(top_k, Len(similar_chunks)))
         IN  [i \in 1..Len(final_chunks) |->
                 final_chunks[i] @@ [debug_info |-> DebugInfo(final_chunks[i], i)]]

\* lines 66-90: the filter, the cut to top_k and the debug info
RetrieveBody(similar_chunks, top_k, min_similarity) ==
    IF similar_chunks = <<>> THEN <<>>
    ELSE LET filtered_chunks ==
                 SelectSeq(similar_chunks,
                           LAMBDA chunk : chunk.similarity_score >= min_similarity)
             final_chunks ==
                 SubSeq(filtered_chunks, 1, Min(top_k, Len(filtered_chunks)))
         IN  [i \in 1..Len(final_chunks) |->
                 final_chunks[i] @@ [debug_info |-> DebugInfo(final_chunks[i], i)]]

\* a retrieve that goes to the provider whatever the maps hold
RetrieveEntryUnguarded(st) == "encode_text"

\* where a retrieve goes before its first await: back from line 34 when
\* total_chunks is 0, back from line 68 when the search found no embeddings
\* (vector_store_memory.py line 128), else into encode_text
RetrieveEntry(st) ==
    IF TotalChunks(st) = 0 THEN "no_chunks"
    ELSE IF st.embeddings = <<>> THEN "no_embeddings"
    ELSE "encode_text"

\* lines 24-61.  The arguments are inputs the call reads without looking at
\* the maps, so those of a call that reaches the await are drawn when it
\* resumes.
RetrieveRelevantChunks ==
    /\ retrieve_call = Idle
    /\ IF RetrieveEntry(Store) # "encode_text"
       THEN /\ ret' = [op |-> "retrieve", total_chunks |-> TotalChunks(Store),
                       awaited |-> FALSE, value |-> <<>>, raised |-> FALSE]
            /\ UNCHANGED retrieve_call
       ELSE /\ retrieve_call' = [pc |-> "encode_text",
                                 total_chunks |-> TotalChunks(Store)]
            /\ ret' = NoReturn
    /\ UnchangedStore
    /\ UNCHANGED <<storage_file, save_failed, add_call, search_call>>
    /\ UNCHANGED <<doc_vars, chat_vars, text_vars>>

\* lines 57-94 as a function of what encode_text brought: the search with
\* its own except clause, then the body, inside the except clause of line 92
RetrieveOutcome(st, encoded, document_ids, top_k, min_similarity) ==
    LET similar_chunks == SearchOutcome(st, encoded, NResults(top_k),
                                        SearchDocumentIds(document_ids))
    IN  Caught(IF similar_chunks.raised THEN [exc |-> TRUE, value |-> None]
               ELSE [exc |-> FALSE,
                     value |-> RetrieveBody(similar_chunks.value, top_k,
                                            min_similarity)],
               <<>>)

RetrieveRelevantChunksResume(document_ids, top_k, min_similarity, encoded) ==
    /\ retrieve_call.pc = "encode_text"
    /\ LET out == RetrieveOutcome(Store, encoded, document_ids, top_k,
                                  min_similarity)
       IN  ret' = [op |-> "retrieve",
                   total_chunks |-> retrieve_call.total_chunks,
                   awaited |-> TRUE, document_ids |-> document_ids,
                   top_k |-> top_k, min_similarity |-> min_similarity,
                   n_results |-> NResults(top_k), encoded |-> encoded,
                   value |-> out.value, raised |-> out.raised]
    /\ retrieve_call' = Idle
    /\ UnchangedStore
    /\ UNCHANGED <<storage_file, save_failed, add_call, search_call>>
    /\ UNCHANGED <<doc_vars, chat_vars, text_vars>>

\* ------------------------------------------------------------- __init__
\* a new process: empty maps, then _load_data; the calls of the old process
\* are gone
Restart ==
    /\ SetStore(LoadData(storage_file))
    /\ save_failed' = FALSE
    /\ add_call' = Idle
    /\ search_call' = Idle
    /\ retrieve_call' = Idle
    /\ ret' = [op |-> "init"]
    /\ UNCHANGED storage_file
    /\ UNCHANGED <<doc_vars, chat_vars, text_vars>>

\* ------------------------------------------------------ DocumentService
Uuid4(k) == ToString(k)

\* os.path.splitext(name)[1].lower().lstrip('.') for the names of Filenames
Extension(name) ==
    CASE name = "a.txt" -> "txt"
      [] name = "act.txt" -> "txt"
      [] name = "a.exe" -> "exe"
      [] OTHER -> ""

AllowedExtensions == {"pdf", "docx", "txt"}

\* _validate_file raises ValueError
ValidateFileRaises(name) == name = "" \/ Extension(name) \notin AllowedExtensions

\* lines 68-81: the Document a new upload registers
NewDocument(document_id, unique_filename, original_filename) ==
    [document_id |-> document_id,
     status |-> "uploading",
     metadata |-> [filename |-> unique_filename,
                   original_filename |-> original_filename,
                   document_type |-> Extension(original_filename),
                   upload_timestamp |-> "t"],
     chunks |-> NoList,
     error_message |-> None]

\* an assignment through the local `document`: it reaches the registry as
\* long as the registry still holds that object
UpdateDocument(reg, document_id, fields) ==
    IF DictHas(reg, document_id)
    THEN DictSet(reg, document_id, fields @@ DictGet(reg, document_id))
    ELSE reg

\* the assignments to the status of a Document of the registry, in order
LogStatus(log, document_id, statuses) ==
    IF DictHas(log, document_id)
    THEN DictSet(log, document_id, DictGet(log, document_id) \o statuses)
    ELSE log

\* an except branch that marks every Document that is not READY
MarkErrorAll(reg, document_id, message) ==
    [i \in 1..Len(reg) |->
        IF reg[i][2].status # "ready"
        THEN <<reg[i][1], [status |-> "error", error_message |-> message] @@ reg[i][2]>>
        ELSE reg[i]]

\* an except branch that leaves the status as it finds it
MarkErrorSkipped(reg, document_id, message) == reg

\* lines 152-155: the except branch marks the document, unless it is READY
MarkError(reg, document_id, message) ==
    IF DictHas(reg, document_id) /\ DictGet(reg, document_id).status # "ready"
    THEN UpdateDocument(reg, document_id,
                        [status |-> "error", error_message |-> message])
    ELSE reg

\* lines 251-256: documents.json as _save_documents writes it
DocumentsSnapshot(reg) ==
    [state |-> "written", documents |-> JsonDumpObject(reg)]

SaveDocuments(reg, file, outcome) ==
    IF outcome = "ok" THEN DocumentsSnapshot(reg) ELSE TruncatedFile

\* lines 262-288: _load_documents; no file leaves the registry empty, a file
\* json.load rejects resets it
LoadDocuments(file) ==
    IF file.state = "written" THEN JsonLoadObject(file.documents, <<>>)
    ELSE <<>>

\* FileProcessor.process_file, lines 38-42: the chunks are made under a
\* document id of their own; the file's text decides how many there are
ProcessFile(chunk_document_id, n) == ChunksOf(chunk_document_id, n)

\* lines 48-88: validation, the two uuid4 calls, the registration, up to the
\* await of _save_file
UploadAndProcessDocument(t, filename) ==
    /\ upload_calls[t] = Idle
    /\ IF t = 1 THEN TRUE ELSE upload_calls[t - 1] # Idle
    /\ Cardinality({u \in 1..MaxUploads : upload_calls[u] \notin {Idle, Done}})
         < MaxInflight
    /\ IF ValidateFileRaises(filename)
       THEN /\ upload_calls' = [upload_calls EXCEPT ![t] =
                                   Done]
            /\ ret' = [op |-> "upload", document_id |-> None, raised |-> TRUE]
            /\ UNCHANGED <<service_documents, uuid_count, status_log>>
       ELSE LET unique_filename == Uuid4(uuid_count + 1) \o "." \o Extension(filename)
                document_id == Uuid4(uuid_count + 2)
            IN  /\ uuid_count' = uuid_count + 2
                /\ service_documents' =
                     DictSet(service_documents, document_id,
                             NewDocument(document_id, unique_filename, filename))
                /\ status_log' = DictSet(status_log, document_id, <<"uploading">>)
                /\ upload_calls' = [upload_calls EXCEPT ![t] =
                                       [pc |-> "save_file",
                                        document_id |-> document_id,
                                        unique_filename |-> unique_filename,
                                        filename |-> filename]]
                /\ ret' = NoReturn
    /\ UnchangedStore
    /\ UNCHANGED <<storage_file, save_failed, add_call, search_call,
                   retrieve_call, documents_file, upload_dir>>
    /\ UNCHANGED <<chat_vars, text_vars>>

\* lines 148-164: the except branch of the upload; `assigned` are the
\* statuses the call assigned since its last await
UploadFails(t, message, assigned) ==
    LET call == upload_calls[t]
        marked == MarkError(service_documents, call.document_id, message)
    IN  /\ service_documents' = marked
        /\ status_log' = LogStatus(status_log, call.document_id,
                                   assigned \o (IF marked # service_documents
                                                THEN <<"error">> ELSE <<>>))
        /\ upload_dir' = upload_dir \ {call.unique_filename}
        /\ upload_calls' = [upload_calls EXCEPT ![t] =
                               Done]
        /\ ret' = [op |-> "upload", document_id |-> call.document_id, raised |-> TRUE]
        /\ UnchangedStore
        /\ UNCHANGED <<storage_file, save_failed, add_call, search_call,
                       retrieve_call, documents_file, uuid_count>>

\* lines 129-146: the upload after add_document_chunks came back
UploadFinishes(t, st, file, failed, out, chunks, docsave, assigned) ==
    LET call == upload_calls[t]
        reg == UpdateDocument(service_documents, call.document_id,
                              [chunks |-> ListOf(chunks)])
        ready == UpdateDocument(reg, call.document_id,
                    IF out.raised
                    THEN [status |-> "ready",
                          error_message |-> "Vector store warning"]
                    ELSE [status |-> "ready"])
    IN  /\ service_documents' = ready
        /\ status_log' = LogStatus(status_log, call.document_id,
                                   assigned \o <<"ready">>)
        /\ documents_file' = SaveDocuments(ready, documents_file, docsave)
        /\ SetStore(st)
        /\ storage_file' = file
        /\ save_failed' = failed
        /\ upload_calls' = [upload_calls EXCEPT ![t] =
                               Done]
        /\ ret' = [op |-> "upload", document_id |-> call.document_id,
                   raised |-> FALSE, success |-> out.value]
        /\ UNCHANGED <<add_call, search_call, retrieve_call>>

\* lines 88-127: _save_file came back; the size check, process_file, and
\* add_document_chunks up to its await of encode_batch
UploadSaved(t, saved, extracted, n, docsave) ==
    LET call == upload_calls[t]
    IN  /\ call.pc = "save_file"
        /\ UNCHANGED <<chat_vars, text_vars>>
        /\ IF saved # "ok"
           THEN UploadFails(t, saved, <<>>)
           ELSE IF ~extracted
           THEN UploadFails(t, "Error processing file", <<"processing">>)
           ELSE LET chunks == ProcessFile(Uuid4(uuid_count + 1), n)
                IN  /\ uuid_count' = uuid_count + 1
                    /\ upload_dir' = upload_dir \cup {call.unique_filename}
                    /\ IF chunks = <<>>
                       THEN UploadFinishes(t, Store, storage_file, save_failed,
                                           [value |-> FALSE, raised |-> FALSE],
                                           chunks, docsave, <<"processing">>)
                       ELSE /\ service_documents' =
                                 UpdateDocument(service_documents, call.document_id,
                                                [status |-> "processing",
                                                 chunks |-> ListOf(chunks)])
                            /\ status_log' = LogStatus(status_log, call.document_id,
                                                       <<"processing">>)
                            /\ upload_calls' = [upload_calls EXCEPT ![t] =
                                 [pc |-> "encode_batch",
                                  document_id |-> call.document_id,
                                  unique_filename |-> call.unique_filename,
                                  chunks |-> chunks,
                                  document_metadata |->
                                      [original_filename |-> call.filename,
                                       document_type |-> Extension(call.filename),
                                       upload_timestamp |-> "t"]]]
                            /\ UnchangedStore
                            /\ ret' = NoReturn
                            /\ UNCHANGED <<storage_file, save_failed, add_call,
                                           search_call, retrieve_call,
                                           documents_file>>

SaveFileOutcomes == {"ok", "File size exceeds maximum allowed size", "write failed"}

\* lines 127-146: encode_batch came back inside add_document_chunks
UploadEncoded(t, encoded, save, docsave) ==
    LET call == upload_calls[t]
    IN  /\ call.pc = "encode_batch"
        /\ Len(encoded.value) <= Len(call.chunks)
        /\ LET body == AddBody(Store, storage_file, call.chunks,
                               call.document_metadata, encoded, save)
           IN  UploadFinishes(t, body.st, body.file,
                              IF body.saved THEN save # "ok" ELSE save_failed,
                              Caught(body, FALSE), call.chunks, docsave, <<>>)
        /\ UNCHANGED <<upload_dir, uuid_count>>
        /\ UNCHANGED <<chat_vars, text_vars>>

\* delete_document
DeleteDocument(document_id, save, docsave) ==
    /\ IF ~DictHas(service_documents, document_id)
       THEN /\ ret' = [op |-> "delete_document", document_id |-> document_id,
                       value |-> FALSE]
            /\ UnchangedStore
            /\ UNCHANGED <<storage_file, save_failed, service_documents,
                           documents_file, upload_dir, status_log>>
       ELSE LET document == DictGet(service_documents, document_id)
                indexed == DictHas(document_index, document_id)
                st == IF indexed THEN DeleteBody(Store, document_id) ELSE Store
                reg == DictPop(service_documents, document_id)
            IN  /\ SetStore(st)
                /\ storage_file' = IF indexed THEN SaveData(st, storage_file, save)
                                   ELSE storage_file
                /\ save_failed' = IF indexed THEN save # "ok" ELSE save_failed
                /\ upload_dir' = upload_dir \ {document.metadata.filename}
                /\ service_documents' = reg
                /\ status_log' = DictPop(status_log, document_id)
                /\ documents_file' = SaveDocuments(reg, documents_file, docsave)
                /\ ret' = [op |-> "delete_document", document_id |-> document_id,
                           value |-> TRUE, document |-> document]
    /\ UNCHANGED <<add_call, search_call, retrieve_call, uuid_count,
                   upload_calls>>
    /\ UNCHANGED <<chat_vars, text_vars>>

\* ---------------------------------------------------------- ChatService
\* lines 105-110 and 127: the name holds one of the filename keywords ('act'
\* is one), for the names of Filenames and ChatFilenames
LegalFilename(name) == name = "act.txt"

\* three of the keywords of lines 113-123
LegalContentKeywords ==
    {<<"f", "i", "r">>, <<"b", "a", "i", "l">>, <<"o", "r", "d", "e", "r">>}

\* keyword in text
Contains(text, word) ==
    \E i \in 1..(Len(text) - Len(word) + 1) :
        SubSeq(text, i, i + Len(word) - 1) = word

\* " ".join of the contents of chunks
RECURSIVE JoinContents(_)
JoinContents(chunks) ==
    IF chunks = <<>> THEN <<>>
    ELSE IF Len(chunks) = 1 THEN chunks[1].content
    ELSE chunks[1].content \o <<" ">> \o JoinContents(Tail(chunks))

\* _is_legal_document, lines 95-136
IsLegalDocument(document) ==
    LET sample_content ==
            IF Truthy(document.chunks)
            THEN JoinContents(SubSeq(document.chunks.items, 1,
                                     Min(SampleChunks, Len(document.chunks.items))))
            ELSE <<>>
    IN  \/ LegalFilename(document.metadata.original_filename)
        \/ \E keyword \in LegalContentKeywords : Contains(sample_content, keyword)

\* a check that takes every Document of the registry
QualifiesUnchecked(reg, doc_id) == DictHas(reg, doc_id)

\* lines 46-49 and 651: the Document exists, is READY and is legal
Qualifies(reg, doc_id) ==
    /\ DictHas(reg, doc_id)
    /\ DictGet(reg, doc_id).status = "ready"
    /\ IsLegalDocument(DictGet(reg, doc_id))

\* lines 50-55 and 606-611: the display metadata of a bound Document
\* (word_count, which the registry of the model does not keep, left out)
DocumentContextOf(document) ==
    [filename |-> document.metadata.original_filename,
     upload_time |-> document.metadata.upload_timestamp,
     chunk_count |-> Len(document.chunks.items)]

\* lines 45-58: the loop over request.document_ids; len(document.chunks)
\* raises TypeError for a Document without a chunk list
RECURSIVE ValidateDocuments(_, _, _, _)
ValidateDocuments(reg, document_ids, valid_documents, document_metadata) ==
    IF document_ids = <<>>
    THEN [exc |-> FALSE, valid_documents |-> valid_documents,
          document_metadata |-> document_metadata]
    ELSE LET doc_id == Head(document_ids)
         IN  IF ~Qualifies(reg, doc_id)
             THEN ValidateDocuments(reg, Tail(document_ids), valid_documents,
                                    document_metadata)
             ELSE IF DictGet(reg, doc_id).chunks.is_none
             THEN [exc |-> TRUE, valid_documents |-> valid_documents,
                   document_metadata |-> document_metadata]
             ELSE ValidateDocuments(
                      reg, Tail(document_ids), Append(valid_documents, doc_id),
                      DictSet(document_metadata, doc_id,
                              DocumentContextOf(DictGet(reg, doc_id))))

\* a constructor that takes over the transcript of the session the map
\* already holds under the id
NewSessionKeepingMessages(session_id, active_document_ids, session_name, document_context) ==
    [session_id |-> session_id,
     created_at |-> now,
     last_activity |-> now,
     message_count |-> IF DictHas(sessions, session_id)
                       THEN DictGet(sessions, session_id).message_count ELSE 0,
     messages |-> IF DictHas(sessions, session_id)
                  THEN DictGet(sessions, session_id).messages ELSE <<>>,
     active_document_ids |-> active_document_ids,
     session_name |-> session_name,
     document_context |-> document_context]

\* lines 70-79 and 615-624
NewSession(session_id, active_document_ids, session_name, document_context) ==
    [session_id |-> session_id,
     created_at |-> now,
     last_activity |-> now,
     message_count |-> 0,
     messages |-> <<>>,
     active_document_ids |-> active_document_ids,
     session_name |-> session_name,
     document_context |-> document_context]

\* lines 66-68
ConsultationName(n) == "Legal Consultation (" \o ToString(n) \o " documents)"

\* json.dump(default=str) writes a datetime as str(datetime);
\* datetime.fromisoformat reads it back
DumpTime(t) == [iso |-> t]
ParseTime(text) == text.iso

\* lines 735-740: a session as written
DumpSession(session) ==
    [session EXCEPT
        !.created_at = DumpTime(@),
        !.last_activity = DumpTime(@),
        !.messages = [i \in 1..Len(@) |-> [@[i] EXCEPT !.timestamp = DumpTime(@)]]]

\* lines 755-773: a session as read
ParseSession(data) ==
    [data EXCEPT
        !.created_at = ParseTime(@),
        !.last_activity = ParseTime(@),
        !.messages = [i \in 1..Len(@) |-> [@[i] EXCEPT !.timestamp = ParseTime(@)]]]

SessionsSnapshot(reg) ==
    [state |-> "written",
     sessions |-> JsonDumpObject([i \in 1..Len(reg) |->
                                     <<reg[i][1], DumpSession(reg[i][2])>>])]

\* _save_sessions: open(file, "w") empties the file, a failing write leaves
\* it truncated; the error is logged and swallowed
SaveSessions(reg, file, outcome) ==
    IF outcome = "ok" THEN SessionsSnapshot(reg) ELSE TruncatedFile

\* _load_sessions: no file leaves the map empty, a file json.load rejects
\* resets it
LoadSessions(file) ==
    IF file.state = "written"
    THEN LET loaded == JsonLoadObject(file.sessions, <<>>)
         IN  [i \in 1..Len(loaded) |-> <<loaded[i][1], ParseSession(loaded[i][2])>>]
    ELSE <<>>

\* an assignment through the local `session`: it reaches the map as long as
\* the map still holds that object (created_at tells the objects of one id
\* apart)
SessionHeld(reg, session_id, created_at) ==
    DictHas(reg, session_id) /\ DictGet(reg, session_id).created_at = created_at


\* get_ready_documents, lines 174-176
GetReadyDocuments(reg) ==
    LET ready == SelectSeq(reg, LAMBDA item : item[2].status = "ready")
    IN  [i \in 1..Len(ready) |-> ready[i][2]]

\* lines 600-611: the loop over the READY Documents
RECURSIVE BindReadyDocuments(_, _, _)
BindReadyDocuments(ready_docs, active_docs, doc_context) ==
    IF ready_docs = <<>>
    THEN [exc |-> FALSE, active_docs |-> active_docs, doc_context |-> doc_context]
    ELSE LET doc == Head(ready_docs)
         IN  IF ~IsLegalDocument(doc)
             THEN BindReadyDocuments(Tail(ready_docs), active_docs, doc_context)
             ELSE IF doc.chunks.is_none
             THEN [exc |-> TRUE, active_docs |-> active_docs,
                   doc_context |-> doc_context]
             ELSE BindReadyDocuments(
                      Tail(ready_docs), Append(active_docs, doc.document_id),
                      DictSet(doc_context, doc.document_id, DocumentContextOf(doc)))

\* a get_or_create that makes a new session whatever the map holds
GetOrCreateSessionAlways(reg, session_id) ==
    LET new_session_id == IF session_id # None THEN session_id
                          ELSE Uuid4(uuid_count + 1)
        bound == BindReadyDocuments(GetReadyDocuments(service_documents),
                                    <<>>, <<>>)
    IN  [exc |-> bound.exc, existed |-> FALSE, session_id |-> new_session_id,
         uuids |-> IF session_id # None THEN 0 ELSE 1,
         sessions |-> IF bound.exc THEN reg
                      ELSE DictSet(reg, new_session_id,
                                   NewSession(new_session_id, bound.active_docs,
                                              "New Legal Chat", bound.doc_context))]

\* _get_or_create_session, lines 592-632
GetOrCreateSession(reg, session_id) ==
    IF session_id # None /\ DictHas(reg, session_id)
    THEN [exc |-> FALSE, existed |-> TRUE, session_id |-> session_id,
          uuids |-> 0, sessions |-> reg]
    ELSE GetOrCreateSessionAlways(reg, session_id)

\* _determine_search_documents, lines 564-590, for a request without
\* document_ids
DetermineSearchDocuments(session) ==
    LET ready_docs == GetReadyDocuments(service_documents)
        legal == SelectSeq(ready_docs, IsLegalDocument)
        legal_doc_ids == [i \in 1..Len(legal) |-> legal[i].document_id]
    IN  IF session.active_document_ids # <<>>
        THEN ListOf(session.active_document_ids)
        ELSE IF legal_doc_ids # <<>> THEN ListOf(legal_doc_ids)
        ELSE NoList

\* what no step of the chat service changes, uuid_count apart
ChatFrame ==
    /\ UnchangedStore
    /\ UNCHANGED <<storage_file, save_failed, add_call, search_call,
                   retrieve_call, service_documents, documents_file, upload_dir,
                   upload_calls, status_log, chunk_call>>

\* start_session_with_documents, lines 38-93
StartSessionWithDocuments(document_ids, requested_id, save) ==
    LET validated == ValidateDocuments(service_documents, document_ids, <<>>, <<>>)
        session_id == IF requested_id # None THEN requested_id
                      ELSE Uuid4(uuid_count + 1)
        reg == DictSet(sessions, session_id,
                       NewSession(session_id, validated.valid_documents,
                                  ConsultationName(Len(validated.valid_documents)),
                                  validated.document_metadata))
    IN  /\ now < MaxTime
        /\ requested_id = None => uuid_count < MaxUuids
        /\ IF validated.exc \/ validated.valid_documents = <<>>
           THEN /\ ret' = [op |-> "start", raised |-> TRUE,
                           document_ids |-> document_ids, before |-> sessions]
                /\ UNCHANGED <<sessions, sessions_file, now, uuid_count>>
           ELSE /\ sessions' = reg
                /\ sessions_file' = SaveSessions(reg, sessions_file, save)
                /\ uuid_count' = IF requested_id # None THEN uuid_count
                                 ELSE uuid_count + 1
                /\ now' = now + 1
                /\ ret' = [op |-> "start", raised |-> FALSE,
                           document_ids |-> document_ids,
                           session_id |-> session_id, before |-> sessions]
        /\ UNCHANGED chat_calls
        /\ ChatFrame

\* request.message of turn t, and what the language model answers to a
\* message
Message(t) == "q" \o ToString(t)
Answer(message) == "answer to " \o message

\* no chat turn is suspended at an await
NoTurnInFlight == \A t \in 1..MaxTurns : chat_calls[t].pc \in {"idle", "done"}

\* a turn that has returned or raised
ChatDone(session_id, outcome) ==
    [pc |-> "done", session_id |-> session_id, outcome |-> outcome]

\* lines 148-171: the session of the turn, the user message, the search
\* scope, and retrieve_relevant_chunks up to its await (it returns at once
\* when the Vector Index is empty); the turn then waits for the provider or
\* for the language model
ChatEnter(t, requested_id) ==
    LET got == GetOrCreateSession(sessions, requested_id)
    IN  /\ uuid_count + got.uuids <= MaxUuids
        /\ uuid_count' = uuid_count + got.uuids
        /\ UNCHANGED sessions_file
        /\ IF got.exc
           THEN /\ ret' = [op |-> "chat", raised |-> TRUE]
                /\ chat_calls' = [chat_calls EXCEPT ![t] =
                                     ChatDone(requested_id, "raised")]
                /\ UNCHANGED <<sessions, now>>
           ELSE LET session == DictGet(got.sessions, got.session_id)
                    with_message ==
                        [session EXCEPT !.messages =
                            Append(@, [role |-> "user", content |-> Message(t),
                                       timestamp |-> now, sources |-> None])]
                IN  /\ sessions' = DictSet(got.sessions, got.session_id, with_message)
                    /\ chat_calls' = [chat_calls EXCEPT ![t] =
                         [pc |-> IF RetrieveEntry(Store) = "encode_text"
                                 THEN "retrieve" ELSE "generate",
                          session_id |-> got.session_id,
                          created_at |-> session.created_at,
                          search_document_ids |-> DetermineSearchDocuments(with_message),
                          retrieved_chunks |-> <<>>]]
                    /\ ret' = [op |-> "get_or_create", requested |-> requested_id,
                               existed |-> got.existed,
                               session_id |-> got.session_id,
                               session |-> session, before |-> sessions]
                    /\ now' = now + 1

\* process_chat_message, lines 138-147: a message with a legal keyword goes
\* on, any other waits for the classification by the language model
ProcessChatMessage(t, requested_id, has_legal_keywords) ==
    /\ chat_calls[t] = Idle
    /\ \A earlier \in 1..(t - 1) : chat_calls[earlier] # Idle
    /\ IF has_legal_keywords
       THEN ChatEnter(t, requested_id)
       ELSE /\ chat_calls' = [chat_calls EXCEPT ![t] =
                                 [pc |-> "classify", session_id |-> requested_id]]
            /\ ret' = NoReturn
            /\ UNCHANGED <<sessions, sessions_file, now, uuid_count>>
    /\ ChatFrame

\* lines 144-147 and 283-300: the classification came back; a failing
\* classifier lets the message through
ChatClassified(t, answer) ==
    /\ chat_calls[t].pc = "classify"
    /\ IF answer = "no"
       THEN /\ chat_calls[t].session_id = None => uuid_count < MaxUuids
            /\ chat_calls' = [chat_calls EXCEPT ![t] =
                                 ChatDone(chat_calls[t].session_id, "out_of_scope")]
            /\ ret' = [op |-> "chat", raised |-> FALSE, out_of_scope |-> TRUE]
            /\ uuid_count' = IF chat_calls[t].session_id # None THEN uuid_count
                             ELSE uuid_count + 1
            /\ UNCHANGED <<sessions, sessions_file, now>>
       ELSE ChatEnter(t, chat_calls[t].session_id)
    /\ ChatFrame

\* lines 165-170: retrieve_relevant_chunks came back
ChatRetrieved(t, encoded) ==
    /\ chat_calls[t].pc = "retrieve"
    /\ chat_calls' =
         [chat_calls EXCEPT
             ![t].pc = "generate",
             ![t].retrieved_chunks =
                 RetrieveOutcome(Store, encoded, chat_calls[t].search_document_ids,
                                 ChatTopK, ChatMinSimilarity).value]
    /\ ret' = NoReturn
    /\ UNCHANGED <<sessions, sessions_file, now, uuid_count>>
    /\ ChatFrame

\* a completion that sets the statistics of a first exchange instead of
\* adding to them
CompleteTurnFirstExchange(session, message, at, has_relevant_docs) ==
    [session EXCEPT
        !.messages =
            Append(@, [role |-> "assistant", content |-> Answer(message),
                       timestamp |-> at,
                       sources |-> IF has_relevant_docs THEN "uploaded_document"
                                   ELSE "legal_knowledge_base"]),
        !.session_name = IF @ = "New Legal Chat" /\ session.message_count = 0
                         THEN "Legal Discussion" ELSE @,
        !.last_activity = at,
        !.message_count = 2]

\* process_chat_message, lines 195-216: the assistant message is appended to
\* the session object, the session renamed after its first exchange, and the
\* statistics updated
CompleteTurn(session, message, at, has_relevant_docs) ==
    [session EXCEPT
        !.messages =
            Append(@, [role |-> "assistant", content |-> Answer(message),
                       timestamp |-> at,
                       sources |-> IF has_relevant_docs THEN "uploaded_document"
                                   ELSE "legal_knowledge_base"]),
        !.session_name = IF @ = "New Legal Chat" /\ session.message_count = 0
                         THEN "Legal Discussion" ELSE @,
        !.last_activity = at,
        !.message_count = @ + 2]

\* lines 187-236: the language model came back; its failure leaves the
\* turn through the except clause, without a save
ChatGenerated(t, llm, save) ==
    LET call == chat_calls[t]
    IN  /\ call.pc = "generate"
        /\ UNCHANGED uuid_count
        /\ IF llm = "error"
           THEN /\ ret' = [op |-> "chat", raised |-> TRUE]
                /\ chat_calls' = [chat_calls EXCEPT ![t] =
                                     ChatDone(call.session_id, "raised")]
                /\ UNCHANGED <<sessions, sessions_file, now>>
           ELSE LET has_relevant_docs ==
                        \E i \in 1..Len(call.retrieved_chunks) :
                            call.retrieved_chunks[i].similarity_score > RelevantScore
                    session == DictGet(sessions, call.session_id)
                    updated == CompleteTurn(session, Message(t), now,
                                            has_relevant_docs)
                    reg == IF SessionHeld(sessions, call.session_id, call.created_at)
                           THEN DictSet(sessions, call.session_id, updated)
                           ELSE sessions
                IN  /\ sessions' = reg
                    /\ sessions_file' = SaveSessions(reg, sessions_file, save)
                    /\ now' = now + 1
                    /\ chat_calls' = [chat_calls EXCEPT ![t] =
                                         ChatDone(call.session_id, "ok")]
                    /\ ret' = [op |-> "chat", raised |-> FALSE,
                               out_of_scope |-> FALSE,
                               session_id |-> call.session_id]
        /\ ChatFrame

\* a loop that adds every id that is not active yet, without the check
RECURSIVE AddLoopUnvalidated(_, _, _)
AddLoopUnvalidated(reg, session, document_ids) ==
    IF document_ids = <<>> THEN session
    ELSE LET doc_id == Head(document_ids)
         IN  AddLoopUnvalidated(
                 reg,
                 IF doc_id \notin SeqToSet(session.active_document_ids)
                 THEN [session EXCEPT
                          !.active_document_ids = Append(@, doc_id),
                          !.document_context =
                              DictSet(@, doc_id, [filename |-> None, added_at |-> now])]
                 ELSE session,
                 Tail(document_ids))

\* lines 648-660: the loop of add_documents_to_session
RECURSIVE AddLoop(_, _, _)
AddLoop(reg, session, document_ids) ==
    IF document_ids = <<>> THEN session
    ELSE LET doc_id == Head(document_ids)
         IN  AddLoop(reg,
                     IF /\ doc_id \notin SeqToSet(session.active_document_ids)
                        /\ Qualifies(reg, doc_id)
                     THEN [session EXCEPT
                              !.active_document_ids = Append(@, doc_id),
                              !.document_context =
                                  DictSet(@, doc_id,
                                          [filename |-> DictGet(reg, doc_id).metadata
                                                            .original_filename,
                                           added_at |-> now])]
                     ELSE session,
                     Tail(document_ids))

\* add_documents_to_session, lines 638-668
AddDocumentsToSession(session_id, document_ids, save) ==
    /\ IF ~DictHas(sessions, session_id)
       THEN /\ ret' = [op |-> "add_documents", value |-> FALSE,
                       session_id |-> session_id, document_ids |-> document_ids,
                       before |-> sessions, at |-> now]
            /\ UNCHANGED <<sessions, sessions_file, now>>
       ELSE LET session == AddLoop(service_documents, DictGet(sessions, session_id),
                                   document_ids)
                reg == DictSet(sessions, session_id,
                               [session EXCEPT !.last_activity = now])
            IN  /\ now < MaxTime
                /\ sessions' = reg
                /\ sessions_file' = SaveSessions(reg, sessions_file, save)
                /\ now' = now + 1
                /\ ret' = [op |-> "add_documents", value |-> TRUE,
                           session_id |-> session_id, document_ids |-> document_ids,
                           before |-> sessions, at |-> now]
    /\ UNCHANGED <<chat_calls, uuid_count>>
    /\ ChatFrame

\* list.remove(x): the first item equal to x goes
RemoveFirst(list, x) ==
    LET i == CHOOSE j \in 1..Len(list) :
                 list[j] = x /\ \A k \in 1..(j - 1) : list[k] # x
    IN  SubSeq(list, 1, i - 1) \o SubSeq(list, i + 1, Len(list))

\* lines 679-683: the loop of remove_documents_from_session
RECURSIVE RemoveLoop(_, _)
RemoveLoop(session, document_ids) ==
    IF document_ids = <<>> THEN session
    ELSE LET doc_id == Head(document_ids)
         IN  RemoveLoop(
                 [session EXCEPT
                     !.active_document_ids =
                         IF doc_id \in SeqToSet(@) THEN RemoveFirst(@, doc_id) ELSE @,
                     !.document_context = DictPop(@, doc_id)],
                 Tail(document_ids))

\* remove_documents_from_session, lines 670-692
RemoveDocumentsFromSession(session_id, document_ids, save) ==
    /\ IF ~DictHas(sessions, session_id)
       THEN /\ ret' = [op |-> "remove_documents", value |-> FALSE,
                       session_id |-> session_id, document_ids |-> document_ids]
            /\ UNCHANGED <<sessions, sessions_file, now>>
       ELSE LET session == RemoveLoop(DictGet(sessions, session_id), document_ids)
                reg == DictSet(sessions, session_id,
                               [session EXCEPT !.last_activity = now])
            IN  /\ now < MaxTime
                /\ sessions' = reg
                /\ sessions_file' = SaveSessions(reg, sessions_file, save)
                /\ now' = now + 1
                /\ ret' = [op |-> "remove_documents", value |-> TRUE,
                           session_id |-> session_id, document_ids |-> document_ids]
    /\ UNCHANGED <<chat_calls, uuid_count>>
    /\ ChatFrame

\* delete_session, lines 708-715
DeleteSession(session_id, save) ==
    /\ IF ~DictHas(sessions, session_id)
       THEN /\ ret' = [op |-> "delete_session", value |-> FALSE]
            /\ UNCHANGED <<sessions, sessions_file>>
       ELSE /\ sessions' = DictPop(sessions, session_id)
            /\ sessions_file' = SaveSessions(DictPop(sessions, session_id),
                                             sessions_file, save)
            /\ ret' = [op |-> "delete_session", value |-> TRUE]
    /\ UNCHANGED <<chat_calls, uuid_count, now>>
    /\ ChatFrame

SearchScopes == {ListOf(l) : l \in Scopes(MaxScope)} \cup {NoList}

\* the vector store with its snapshot file, failing writes and restarts
Next ==
    \/ \E d \in DocIds, n \in 0..MaxChunks : AddDocumentChunks(d, n)
    \/ \E e \in EncodeBatchOutcomes(EmbeddingValues, MaxChunks), s \in SaveOutcomes :
          AddDocumentChunksResume(e, s)
    \/ \E d \in DocIds, s \in SaveOutcomes : DeleteDocumentChunks(d, s)
    \/ \E s \in SaveOutcomes : ResetCollection(s)
    \/ Restart

Spec == Init /\ [][Next]_vars

\* the vector store under searches and restarts; the writes succeed, and the
\* provider answers an upsert with one vector for each text or fails
NextSearch ==
    \/ \E d \in DocIds, n \in 0..MaxChunks : AddDocumentChunks(d, n)
    \/ \E e \in EncodeBatchOutcomes(SearchValues, MaxChunks) :
          /\ add_call.pc = "encode_batch"
          /\ e.error \/ Len(e.value) = Len(add_call.chunks)
          /\ AddDocumentChunksResume(e, "ok")
    \/ \E d \in DocIds : DeleteDocumentChunks(d, "ok")
    \/ ResetCollection("ok")
    \/ SearchSimilarChunks
    \/ \E ds \in SearchScopes, n \in 1..MaxLimit,
          e \in EncodeTextOutcomes(QueryValues) :
          SearchSimilarChunksResume(ds, n, e)
    \/ Restart

SpecSearch == Init /\ [][NextSearch]_vars

\* ------------------------------------------ retrieves over a loaded store
\* what encode_batch brought for the n chunks of an upsert: k vectors along
\* the query and n - k vectors off it, the former first or last
BatchVectors(n, k, first) ==
    [i \in 1..n |-> IF (i <= k) = first THEN <<1, 0>> ELSE <<3, 4>>]

\* the maps after add_document_chunks stored the n chunks of document "1"
BatchStore(n, k, first) ==
    StoreLoop(EmptyStore, ChunksOf("1", n), BatchVectors(n, k, first),
              DocumentMetadataOf("1"), 1).st

\* __init__ of a process that finds the snapshot an earlier process wrote
\* after one upsert
InitOverfetch ==
    /\ \E n \in 0..MaxBatch : \E k \in 0..n, first \in BOOLEAN :
          storage_file = Snapshot(BatchStore(n, k, first))
    /\ embeddings = LoadData(storage_file).embeddings
    /\ documents = LoadData(storage_file).documents
    /\ metadatas = LoadData(storage_file).metadatas
    /\ document_index = LoadData(storage_file).document_index
    /\ save_failed = FALSE
    /\ add_call = Idle
    /\ search_call = Idle
    /\ retrieve_call = Idle
    /\ ret = [op |-> "init"]
    /\ service_documents = <<>>
    /\ documents_file = NoFile
    /\ upload_dir = {}
    /\ uuid_count = 0
    /\ upload_calls = [t \in 1..MaxUploads |-> Idle]
    /\ status_log = <<>>
    /\ sessions = <<>>
    /\ sessions_file = NoFile
    /\ now = 0
    /\ chat_calls = [t \in 1..MaxTurns |-> Idle]
    /\ chunk_call = Idle

NextOverfetch ==
    \/ RetrieveRelevantChunks
    \/ \E ds \in {NoList, ListOf(<<"1">>)}, k \in 1..MaxBatch,
          m \in MinSimilarities, e \in EncodeTextOutcomes(QueryValues) :
          RetrieveRelevantChunksResume(ds, k, m, e)

SpecOverfetch == InitOverfetch /\ [][NextOverfetch]_vars

\* the document_ids of a retrieve: none, empty, one document, every document
RetrieveScopes ==
    {NoList, ListOf(<<>>), ListOf(<<"1", "2">>)} \cup {ListOf(<<d>>) : d \in DocIds}

\* the vector store under retrieves; the writes succeed, and the provider
\* answers an upsert with one vector for each text or fails
NextRetrieve ==
    \/ \E d \in DocIds, n \in 0..MaxChunks : AddDocumentChunks(d, n)
    \/ \E e \in EncodeBatchOutcomes(SearchValues, MaxChunks) :
          /\ add_call.pc = "encode_batch"
          /\ e.error \/ Len(e.value) = Len(add_call.chunks)
          /\ AddDocumentChunksResume(e, "ok")
    \/ \E d \in DocIds : DeleteDocumentChunks(d, "ok")
    \/ ResetCollection("ok")
    \/ RetrieveRelevantChunks
    \/ \E ds \in RetrieveScopes, k \in 1..MaxTopK, m \in MinSimilarities,
          e \in EncodeTextOutcomes(QueryValues) :
          RetrieveRelevantChunksResume(ds, k, m, e)

SpecRetrieve == Init /\ [][NextRetrieve]_vars

\* the document registry driving the vector store; the writes succeed
NextDoc ==
    \/ \E t \in 1..MaxUploads, f \in Filenames : UploadAndProcessDocument(t, f)
    \/ \E t \in 1..MaxUploads, sv \in SaveFileOutcomes, x \in BOOLEAN,
          n \in 0..MaxChunks : UploadSaved(t, sv, x, n, "ok")
    \/ \E t \in 1..MaxUploads, e \in EncodeBatchOutcomes(UploadValues, MaxChunks) :
          UploadEncoded(t, e, "ok", "ok")
    \/ \E d \in DictKeySet(service_documents) \cup {Uuid4(0)} :
          DeleteDocument(d, "ok", "ok")

SpecDoc == Init /\ [][NextDoc]_vars

\* the registry under uploads alone, interleaved at their awaits
NextIngest ==
    \/ \E t \in 1..MaxUploads, f \in Filenames : UploadAndProcessDocument(t, f)
    \/ \E t \in 1..MaxUploads, sv \in SaveFileOutcomes, x \in BOOLEAN,
          n \in 0..MaxChunks : UploadSaved(t, sv, x, n, "ok")
    \/ \E t \in 1..MaxUploads, e \in EncodeBatchOutcomes(UploadValues, MaxChunks) :
          UploadEncoded(t, e, "ok", "ok")

SpecIngest == Init /\ [][NextIngest]_vars

\* every external call an upload awaits (the file write with the extraction
\* that follows it, the embedding inside the upsert) eventually returns or
\* fails: a suspended upload is eventually resumed
FairUploads ==
    \A t \in 1..MaxUploads :
        /\ WF_vars(\E sv \in SaveFileOutcomes, x \in BOOLEAN, n \in {0, 1} :
                      UploadSaved(t, sv, x, n, "ok"))
        /\ WF_vars(\E e \in EncodeBatchOutcomes(UploadValues, MaxChunks) :
                      UploadEncoded(t, e, "ok", "ok"))

\* uploads of files that yield at most one chunk, interleaved at their awaits
NextUploads ==
    \/ \E t \in 1..MaxUploads, f \in Filenames : UploadAndProcessDocument(t, f)
    \/ \E t \in 1..MaxUploads, sv \in SaveFileOutcomes, x \in BOOLEAN,
          n \in {0, 1} : UploadSaved(t, sv, x, n, "ok")
    \/ \E t \in 1..MaxUploads, e \in EncodeBatchOutcomes(UploadValues, MaxChunks) :
          UploadEncoded(t, e, "ok", "ok")

SpecUploads == Init /\ [][NextUploads]_vars /\ FairUploads

\* ------------------------------------------------ SpecSessions, SpecChat
\* a Document as an earlier process left it in documents.json: READY with
\* the chunks process_file made under chunk_document_id, or ERROR
RegisteredDocument(document_id, chunk_document_id, original_filename, status) ==
    [NewDocument(document_id, "u" \o document_id \o ".txt", original_filename)
        EXCEPT !.status = status,
               !.chunks = IF status = "ready"
                          THEN ListOf(ProcessFile(chunk_document_id, 1))
                          ELSE NoList,
               !.error_message = IF status = "ready" THEN None
                                 ELSE "Error processing file"]

\* the second Document of the registry: legal and READY, READY but not
\* legal, or legal but failed
SecondDocuments ==
    {RegisteredDocument("2", "4", "act.txt", "ready"),
     RegisteredDocument("2", "4", "a.txt", "ready"),
     RegisteredDocument("2", "4", "act.txt", "error")}

\* the Vector Index an earlier process left in memory_vector_store.json
ChatStore ==
    StoreLoop(EmptyStore, ProcessFile("3", 1), <<<<1, 0>>>>,
              DocumentMetadataOf("1"), 1).st

\* the state after the three services were constructed over the files an
\* earlier process left
InitChat ==
    /\ \E second \in SecondDocuments :
          /\ documents_file =
                DocumentsSnapshot(<<<<"1", RegisteredDocument("1", "3", "act.txt", "ready")>>,
                                    <<"2", second>>>>)
          /\ service_documents = LoadDocuments(documents_file)
    /\ storage_file = Snapshot(ChatStore)
    /\ embeddings = LoadData(storage_file).embeddings
    /\ documents = LoadData(storage_file).documents
    /\ metadatas = LoadData(storage_file).metadatas
    /\ document_index = LoadData(storage_file).document_index
    /\ save_failed = FALSE
    /\ add_call = Idle
    /\ search_call = Idle
    /\ retrieve_call = Idle
    /\ ret = [op |-> "init"]
    /\ upload_dir = {"u1.txt", "u2.txt"}
    /\ uuid_count = 0
    /\ upload_calls = [t \in 1..MaxUploads |-> Idle]
    /\ status_log = <<>>
    /\ sessions_file = NoFile
    /\ sessions = LoadSessions(sessions_file)
    /\ now = 0
    /\ chat_calls = [t \in 1..MaxTurns |-> Idle]
    /\ chunk_call = Idle

RequestLists == {<<>>, <<"1">>, <<"2">>, <<"1", "1">>, <<"1", "2">>}
RequestedSessionIds == {None, "s1"}
KnownSessionIds == DictKeySet(sessions) \cup {"s0"}

\* the session operations, and the deletion of a Document
NextSessions ==
    \/ \E document_ids \in RequestLists, session_id \in RequestedSessionIds :
          StartSessionWithDocuments(document_ids, session_id, "ok")
    \/ \E session_id \in KnownSessionIds, document_ids \in RequestLists :
          AddDocumentsToSession(session_id, document_ids, "ok")
    \/ \E session_id \in KnownSessionIds, document_ids \in RequestLists :
          RemoveDocumentsFromSession(session_id, document_ids, "ok")
    \/ \E session_id \in KnownSessionIds : DeleteSession(session_id, "ok")
    \/ \E document_id \in DictKeySet(service_documents) :
          DeleteDocument(document_id, "ok", "ok")

SpecSessions == InitChat /\ [][NextSessions]_vars

\* the chat turns, among sessions that are started and deleted
NextChat ==
    \/ \E document_ids \in RequestLists, session_id \in RequestedSessionIds :
          StartSessionWithDocuments(document_ids, session_id, "ok")
    \/ \E t \in 1..MaxTurns, session_id \in RequestedSessionIds, k \in BOOLEAN :
          NoTurnInFlight /\ now < MaxTime /\ ProcessChatMessage(t, session_id, k)
    \/ \E t \in 1..MaxTurns, answer \in {"yes", "no", "error"} :
          ChatClassified(t, answer)
    \/ \E t \in 1..MaxTurns, e \in EncodeTextOutcomes(QueryValues) :
          ChatRetrieved(t, e)
    \/ \E t \in 1..MaxTurns, llm \in {"ok", "error"} : ChatGenerated(t, llm, "ok")
    \/ \E session_id \in KnownSessionIds : DeleteSession(session_id, "ok")

SpecChat == InitChat /\ [][NextChat]_vars

\* the sessions an earlier process left in sessions.json: one session with a
\* completed exchange
StoredSessions ==
    << <<"s0", [session_id |-> "s0",
                created_at |-> 0,
                last_activity |-> 0,
                message_count |-> 2,
                messages |-> <<[role |-> "user", content |-> "q0",
                                timestamp |-> 0, sources |-> None],
                               [role |-> "assistant", content |-> Answer("q0"),
                                timestamp |-> 0,
                                sources |-> "legal_knowledge_base"]>>,
                active_document_ids |-> <<"1">>,
                session_name |-> "Legal Discussion",
                document_context |->
                    <<<<"1", [filename |-> "act.txt", upload_time |-> "t",
                              chunk_count |-> 1]>>>>]>> >>

\* the state after the services were constructed over those files
InitStored ==
    /\ \E second \in SecondDocuments :
          /\ documents_file =
                DocumentsSnapshot(<<<<"1", RegisteredDocument("1", "3", "act.txt", "ready")>>,
                                    <<"2", second>>>>)
          /\ service_documents = LoadDocuments(documents_file)
    /\ storage_file = Snapshot(ChatStore)
    /\ embeddings = LoadData(storage_file).embeddings
    /\ documents = LoadData(storage_file).documents
    /\ metadatas = LoadData(storage_file).metadatas
    /\ document_index = LoadData(storage_file).document_index
    /\ save_failed = FALSE
    /\ add_call = Idle
    /\ search_call = Idle
    /\ retrieve_call = Idle
    /\ ret = [op |-> "init"]
    /\ upload_dir = {"u1.txt", "u2.txt"}
    /\ uuid_count = 0
    /\ upload_calls = [t \in 1..MaxUploads |-> Idle]
    /\ status_log = <<>>
    /\ sessions_file = SessionsSnapshot(StoredSessions)
    /\ sessions = LoadSessions(sessions_file)
    /\ now = 0
    /\ chat_calls = [t \in 1..MaxTurns |-> Idle]
    /\ chunk_call = Idle

\* sessions started under explicit ids, old and new, and their documents
\* changed
NextStored ==
    \/ \E document_ids \in RequestLists, session_id \in {"s0", "s1"} :
          StartSessionWithDocuments(document_ids, session_id, "ok")
    \/ \E session_id \in KnownSessionIds, document_ids \in RequestLists :
          AddDocumentsToSession(session_id, document_ids, "ok")
    \/ \E session_id \in KnownSessionIds, document_ids \in RequestLists :
          RemoveDocumentsFromSession(session_id, document_ids, "ok")

SpecStored == InitStored /\ [][NextStored]_vars

\* chat turns only, any number of them in flight at once
NextTurns ==
    \/ \E t \in 1..MaxTurns, session_id \in RequestedSessionIds, k \in BOOLEAN :
          ProcessChatMessage(t, session_id, k)
    \/ \E t \in 1..MaxTurns, answer \in {"yes", "no", "error"} :
          ChatClassified(t, answer)
    \/ \E t \in 1..MaxTurns, e \in EncodeTextOutcomes(QueryValues) :
          ChatRetrieved(t, e)
    \/ \E t \in 1..MaxTurns, llm \in {"ok", "error"} : ChatGenerated(t, llm, "ok")

SpecTurns == InitChat /\ [][NextTurns]_vars

\* ------------------------------------------------------------ SpecChunk
\* a process in which chunk_text is about to be called on a text
InitChunk ==
    /\ embeddings = <<>>
    /\ documents = <<>>
    /\ metadatas = <<>>
    /\ document_index = <<>>
    /\ storage_file = NoFile
    /\ save_failed = FALSE
    /\ add_call = Idle
    /\ search_call = Idle
    /\ retrieve_call = Idle
    /\ ret = [op |-> "init"]
    /\ service_documents = <<>>
    /\ documents_file = NoFile
    /\ upload_dir = {}
    /\ uuid_count = 0
    /\ upload_calls = [t \in 1..MaxUploads |-> Idle]
    /\ status_log = <<>>
    /\ sessions = <<>>
    /\ sessions_file = NoFile
    /\ now = 0
    /\ chat_calls = [t \in 1..MaxTurns |-> Idle]
    /\ \E text \in Texts(MaxTextLen), document_id \in DocIds :
          chunk_call = [pc |-> "chunk_text", text |-> text,
                        document_id |-> document_id]

\* chunk_text runs and returns
ChunkTextReturns ==
    /\ chunk_call.pc = "chunk_text"
    /\ ret' = [op |-> "chunk_text", text |-> chunk_call.text,
               document_id |-> chunk_call.document_id,
               value |-> ChunkTextBody(chunk_call.text, chunk_call.document_id)]
    /\ chunk_call' = Idle
    /\ UnchangedStore
    /\ UNCHANGED <<storage_file, save_failed, add_call, search_call,
                   retrieve_call>>
    /\ UNCHANGED <<doc_vars, chat_vars>>

NextChunk == ChunkTextReturns

SpecChunk == InitChunk /\ [][NextChunk]_vars

\* ------------------------------------------------------------- SpecDisk
DiskLists == {<<"1">>, <<"1", "2">>}

\* the operations of the three stores that write to disk, on a disk that
\* may refuse any write
NextDisk ==
    \/ \E d \in DictKeySet(document_index), s \in SaveOutcomes :
          DeleteDocumentChunks(d, s)
    \/ \E s \in SaveOutcomes : ResetCollection(s)
    \/ \E d \in DictKeySet(service_documents), s \in SaveOutcomes,
          docsave \in SaveOutcomes : DeleteDocument(d, s, docsave)
    \/ \E document_ids \in DiskLists, s \in SaveOutcomes :
          StartSessionWithDocuments(document_ids, "s1", s)
    \/ \E session_id \in KnownSessionIds, document_ids \in DiskLists,
          s \in SaveOutcomes :
          AddDocumentsToSession(session_id, document_ids, s)
    \/ \E session_id \in KnownSessionIds, document_ids \in DiskLists,
          s \in SaveOutcomes :
          RemoveDocumentsFromSession(session_id, document_ids, s)
    \/ \E session_id \in KnownSessionIds, s \in SaveOutcomes :
          DeleteSession(session_id, s)

SpecDisk == InitChat /\ [][NextDisk]_vars

\* ------------------------------------------------------------ properties
\* the chunk a result row stands for
RowChunkId(row) == ChunkId(row.metadata.document_id, row.metadata.chunk_index)

IndexedChunkIds(st) ==
    UNION {SeqToSet(st.document_index[i][2]) : i \in 1..Len(st.document_index)}

SearchInputs ==
    SearchScopes \X (1..MaxLimit) \X EncodeTextOutcomes(QueryValues)

\* C1: in every reachable state the chunk ids listed in document_index are
\* exactly the keys of embeddings, which are exactly the keys of documents
\* and of metadatas
C1_IndexConsistent ==
    /\ IndexedChunkIds(Store) = DictKeySet(embeddings)
    /\ DictKeySet(embeddings) = DictKeySet(documents)
    /\ DictKeySet(documents) = DictKeySet(metadatas)

\* a delete went through while the other document stayed indexed
C1_Witness ==
    /\ ret.op = "delete" /\ ret.value
    /\ embeddings # <<>>

\* C2: a delete that returns true leaves no search, scoped or not, that
\* returns a chunk the document had indexed, and lowers total_chunks by the
\* number of distinct chunks the document had; a delete of a document
\* without indexed chunks returns false
C2_DeleteRemoves ==
    ret.op = "delete" =>
        LET had == IF DictHas(ret.before.document_index, ret.document_id)
                   THEN SeqToSet(DictGet(ret.before.document_index,
                                         ret.document_id))
                   ELSE {}
        IN  /\ (had = {}) => ~ret.value
            /\ ret.value =>
                 /\ TotalChunks(Store) = TotalChunks(ret.before) - Cardinality(had)
                 /\ \A in \in SearchInputs :
                      LET rows == SearchOutcome(Store, in[3], in[2], in[1]).value
                      IN  \A i \in 1..Len(rows) : RowChunkId(rows[i]) \notin had

\* a delete removed one of two documents, left the chunk of the other one
\* behind and rewrote the file
C2_Witness ==
    /\ ret.op = "delete" /\ ret.value
    /\ Len(ret.before.document_index) = 2
    /\ Len(embeddings) = 1
    /\ storage_file = Snapshot(Store)

\* the search that returned last went through to the scan
Searched == ret.op = "search" /\ ~ret.empty /\ ~ret.encoded.error

\* C5: a search with a non-empty scope returns only chunks document_index
\* lists under a document of the scope; a search without scope takes every
\* indexed chunk as a candidate, so it returns min(limit, total) rows of
\* pairwise distinct indexed chunks
C5_ScopeRespected ==
    Searched =>
        LET rows == ret.value
            scope == SeqToSet(ret.document_ids.items)
            listed == UNION {SeqToSet(document_index[i][2]) :
                               i \in {j \in 1..Len(document_index) :
                                        document_index[j][1] \in scope}}
        IN  IF Truthy(ret.document_ids)
            THEN \A i \in 1..Len(rows) : RowChunkId(rows[i]) \in listed
            ELSE /\ Len(rows) = Min(ret.n_results, TotalChunks(Store))
                 /\ \A i \in 1..Len(rows) : RowChunkId(rows[i]) \in DictKeySet(embeddings)
                 /\ \A i, j \in 1..Len(rows) :
                      i # j => RowChunkId(rows[i]) # RowChunkId(rows[j])

\* a search scoped to one document returned a row while another document
\* was indexed too
C5_Witness ==
    /\ Searched
    /\ Truthy(ret.document_ids)
    /\ Len(ret.value) = 1
    /\ Len(document_index) = 2

\* C6: a search returns at most limit rows, in non-increasing order of
\* score, with ranks 1..n; the rows are candidates taken in an order that
\* keeps candidates of equal score in candidate order; no candidate left out
\* scores higher than the last row, and one that scores the same comes
\* behind the rows of that score in candidate order
C6_Ranked ==
    Searched =>
        LET rows == ret.value
            cands == Similarities(Store, ret.encoded.value,
                                  Candidates(Store, ret.document_ids))
        IN  /\ Len(rows) <= ret.n_results
            /\ \A i \in 1..Len(rows) : rows[i].rank = i
            /\ \A i \in 1..(Len(rows) - 1) :
                 rows[i].similarity_score >= rows[i + 1].similarity_score
            /\ \E f \in [1..Len(rows) -> 1..Len(cands)] :
                 /\ \A i \in 1..Len(rows) :
                      /\ cands[f[i]][1] = RowChunkId(rows[i])
                      /\ cands[f[i]][2] = rows[i].similarity_score
                 /\ \A i, j \in 1..Len(rows) :
                      /\ i # j => f[i] # f[j]
                      /\ (i < j /\ rows[i].similarity_score = rows[j].similarity_score)
                           => f[i] < f[j]
                 /\ \A p \in 1..Len(cands) :
                      (\A i \in 1..Len(rows) : f[i] # p) =>
                         /\ Len(rows) = ret.n_results
                         /\ cands[p][2] <= rows[Len(rows)].similarity_score
                         /\ \A i \in 1..Len(rows) :
                              cands[p][2] = rows[i].similarity_score => f[i] < p

\* a search with limit 1 over two chunks of equal score returned the one
\* that comes first in candidate order and left the other one out
C6_Witness ==
    /\ Searched
    /\ ret.n_results = 1
    /\ Len(ret.value) = 1
    /\ LET cands == Similarities(Store, ret.encoded.value,
                                 Candidates(Store, ret.document_ids))
       IN  /\ Len(cands) = 2
           /\ cands[1][1] # cands[2][1]
           /\ cands[1][2] = cands[2][2]
           /\ cands[1][2] > 0
           /\ RowChunkId(ret.value[1]) = cands[1][1]

\* C7: all stored embedding vectors have the same dimension
C7_SameDimension ==
    \A i, j \in 1..Len(embeddings) : Len(embeddings[i][2]) = Len(embeddings[j][2])

\* C8: an upsert during which the embedding provider fails returns False
\* and does not raise
C8_ProviderFailureReturned ==
    (ret.op = "add" /\ ret.provider_failed) => (~ret.raised /\ ret.value = FALSE)

\* an upsert of two chunks came back after the provider failed
C8_Witness ==
    /\ ret.op = "add" /\ ret.provider_failed
    /\ Len(ret.chunks) = 2

\* C9: after an upsert, delete or reset has returned, with whatever result,
\* and the last write of the file did not fail, the file holds the four maps
\* as they are in memory
C9_SnapshotCurrent ==
    (ret.op \in {"add", "delete", "reset"} /\ ~save_failed) =>
        LoadData(storage_file) = Store

C3_ChunksCarryDocumentId ==
    \A i \in 1..Len(service_documents) :
        LET document == service_documents[i][2]
        IN  \A j \in 1..Len(document.chunks.items) :
              LET chunk == document.chunks.items[j]
              IN  /\ chunk.document_id = document.document_id
                  /\ chunk.chunk_id = ChunkId(document.document_id, chunk.chunk_index)

\* C4: after delete_document has returned true, the vector store holds none
\* of the chunks of the deleted Document
C4_DeleteDocumentClearsIndex ==
    (ret.op = "delete_document" /\ ret.value) =>
        \A j \in 1..Len(ret.document.chunks.items) :
            ~DictHas(embeddings, ret.document.chunks.items[j].chunk_id)

\* the retrieve that returned last
Retrieved == ret.op = "retrieve"

\* C11: a retrieve that finds total_chunks = 0 returns the empty list, does
\* not raise, and returns before the await of the provider, so before any
\* candidate is scored
C11_EmptyIndexReturns ==
    (Retrieved /\ ret.total_chunks = 0) =>
        (ret.value = <<>> /\ ~ret.raised /\ ~ret.awaited)

\* a retrieve came back from maps that had been filled and emptied again
C11_Witness ==
    /\ Retrieved
    /\ ret.total_chunks = 0
    /\ storage_file.state = "written"

\* the lists that hold every element of a set once
Orderings(S) ==
    {f \in [1..Cardinality(S) -> S] : \A i, j \in 1..Cardinality(S) : i # j => f[i] # f[j]}

\* C12: a retrieve without document ids (None or empty) returns what the
\* same retrieve returns when document_ids lists every document id of
\* document_index, in whatever order
C12_OmittedScopeIsEveryDocument ==
    (Retrieved /\ ret.awaited /\ ~Truthy(ret.document_ids)) =>
        \A every \in Orderings(DictKeySet(document_index)) :
            RetrieveOutcome(Store, ret.encoded, ListOf(every), ret.top_k,
                            ret.min_similarity).value = ret.value

\* the rows the Vector Index handed to the retrieve that just returned
Fetched ==
    SearchOutcome(Store, ret.encoded, ret.n_results,
                  SearchDocumentIds(ret.document_ids)).value

\* the fetched rows that meet the threshold of the retrieve, in fetched order
Passing ==
    SelectSeq(Fetched, LAMBDA row : row.similarity_score >= ret.min_similarity)

ChunksInScope ==
    {c \in DictKeySet(embeddings) :
        \/ ~Truthy(ret.document_ids)
        \/ DictGet(metadatas, c).document_id \in SeqToSet(ret.document_ids.items)}

\* those of them whose similarity to the query meets the threshold
Eligible ==
    IF ret.encoded.error THEN {}
    ELSE {c \in ChunksInScope :
             DotProductSimilarity(ret.encoded.value, DictGet(embeddings, c))
                 >= ret.min_similarity}

\* C14: a retrieve asks the Vector Index for min(top_k * 2, 20) rows and
\* returns at most top_k rows; when top_k is at most 20 and at least top_k
\* indexed chunks in scope meet the threshold, it returns exactly top_k rows
C14_OverfetchWithinCap ==
    (Retrieved /\ ret.awaited) =>
        /\ ret.n_results = Min(ret.top_k * 2, MaxCandidates)
        /\ Len(ret.value) <= ret.top_k
        /\ (ret.top_k <= MaxCandidates /\ Cardinality(Eligible) >= ret.top_k)
               => Len(ret.value) = ret.top_k

\* a retrieve of 11 rows, asking for 20 and not 22, over more than 11 chunks
\* that meet the threshold and one that does not
C14_Witness ==
    /\ Retrieved
    /\ ret.awaited
    /\ ret.top_k = 11
    /\ ret.n_results = MaxCandidates
    /\ Cardinality(Eligible) > ret.top_k
    /\ Cardinality(Eligible) < Len(embeddings)
    /\ Len(ret.value) = ret.top_k

\* C14 as the specification words it: exactly top_k rows whenever at least
\* top_k indexed chunks in scope meet the threshold, whatever top_k is
C14_Overfetch ==
    (Retrieved /\ ret.awaited) =>
        /\ ret.n_results = Min(ret.top_k * 2, MaxCandidates)
        /\ Len(ret.value) <= ret.top_k
        /\ Cardinality(Eligible) >= ret.top_k => Len(ret.value) = ret.top_k

\* C15: the rows a retrieve returns are numbered 1..n in returned order,
\* after the threshold and the cut to top_k: the rank of row i is i
C15_RanksNumbered ==
    Retrieved =>
        \A i \in 1..Len(ret.value) :
            /\ ret.value[i].rank = i
            /\ ret.value[i].debug_info.rank = i

\* a retrieve that returned several rows, fewer than it fetched because of
\* the threshold, from a store whose first chunk is under the threshold
C15_Witness ==
    /\ Retrieved
    /\ ret.awaited
    /\ Len(ret.value) >= 2
    /\ Len(ret.value) = Len(Passing)
    /\ Len(Passing) < Len(Fetched)
    /\ DotProductSimilarity(ret.encoded.value, embeddings[1][2]) < ret.min_similarity

\* C16: a retrieve never raises; when the embedding provider or the search
\* fails at query time it returns an empty list; and no step of a retrieve
\* changes the maps of the Vector Index or its snapshot file
C16_RetrieveNeverRaises ==
    [][(ret'.op = "retrieve" \/ retrieve_call' # retrieve_call) =>
          /\ UNCHANGED <<embeddings, documents, metadatas, document_index,
                         storage_file>>
          /\ ret'.op = "retrieve" =>
                /\ ~ret'.raised
                /\ (ret'.awaited /\ ret'.encoded.error) => ret'.value = <<>>]_vars

\* a retrieve over a store that holds chunks, answered with an empty list
\* because encode_text failed
C16_Witness ==
    /\ Retrieved
    /\ ret.awaited
    /\ ret.encoded.error
    /\ ~ret.raised
    /\ ret.value = <<>>
    /\ ret.total_chunks > 0
    /\ Len(embeddings) > 0

\* the status changes the lifecycle of a Document allows
AllowedTransitions ==
    {<<"uploading", "processing">>, <<"processing", "ready">>,
     <<"processing", "error">>}

\* C17: the status of every Document starts as UPLOADING and changes only
\* along UPLOADING -> PROCESSING, PROCESSING -> READY, PROCESSING -> ERROR
C17_StatusPath ==
    \A i \in 1..Len(status_log) :
        LET log == status_log[i][2]
        IN  /\ log[1] = "uploading"
            /\ \A j \in 1..(Len(log) - 1) :
                  <<log[j], log[j + 1]>> \in AllowedTransitions

\* C18: an upload whose upsert into the Vector Index reported failure leaves
\* its Document in the registry with status READY and an error_message
C18_FailedIndexingRecorded ==
    (ret.op = "upload" /\ ~ret.raised /\ ~ret.success) =>
        /\ DictHas(service_documents, ret.document_id)
        /\ DictGet(service_documents, ret.document_id).status = "ready"
        /\ DictGet(service_documents, ret.document_id).error_message # None

\* C19: an upload that raised (validation, file size, text extraction) has
\* left a Document with status ERROR and an error_message in the registry,
\* and its file is not in the upload directory
C19_FailedUploadRecorded ==
    (ret.op = "upload" /\ ret.raised) =>
        /\ ret.document_id # None
        /\ DictHas(service_documents, ret.document_id)
        /\ LET document == DictGet(service_documents, ret.document_id)
           IN  /\ document.status = "error"
               /\ document.error_message # None
               /\ document.metadata.filename \notin upload_dir

\* no upload is between its registration and its return
NoUploadInFlight == \A t \in 1..MaxUploads : upload_calls[t] \in {Idle, Done}

\* C20: when an upload has returned or raised, or a delete_document has
\* returned true, no other upload is under way and the write did not fail,
\* documents.json holds exactly the Documents of the registry, with the
\* same status and error_message
C20_RegistryPersisted ==
    (/\ ret.op = "upload" \/ (ret.op = "delete_document" /\ ret.value)
     /\ NoUploadInFlight) =>
        LET persisted == LoadDocuments(documents_file)
        IN  /\ DictKeySet(persisted) = DictKeySet(service_documents)
            /\ \A d \in DictKeySet(service_documents) :
                  /\ DictGet(persisted, d).status
                         = DictGet(service_documents, d).status
                  /\ DictGet(persisted, d).error_message
                         = DictGet(service_documents, d).error_message

\* the upload call t holds the Document d
OwnDocument(t, d) ==
    upload_calls[t].pc \in {"save_file", "encode_batch"}
        /\ upload_calls[t].document_id = d

\* the chunks the upload call t has handed to the Vector Index
OwnChunkIds(t) ==
    IF upload_calls[t].pc = "encode_batch"
    THEN {upload_calls[t].chunks[i].chunk_id : i \in 1..Len(upload_calls[t].chunks)}
    ELSE {}

\* the document ids those chunks carry, the keys of their index lists
OwnIndexKeys(t) ==
    IF upload_calls[t].pc = "encode_batch"
    THEN {upload_calls[t].chunks[i].document_id : i \in 1..Len(upload_calls[t].chunks)}
    ELSE {}

\* a step of the upload call t
UploadStep(t) == upload_calls'[t] # upload_calls[t]

\* the upload call t has just ended in failure: it raised, or its upsert
\* reported failure
UploadFailed == ret.op = "upload" /\ (ret.raised \/ ~ret.success)

\* C21: no step of an upload, failing or not, interleaved with other uploads
\* or not, changes another Document of the registry (status, chunks,
\* error_message) or a chunk of the Vector Index that is not its own
C21_FailureIsolated ==
    [][\A t \in 1..MaxUploads :
          UploadStep(t) =>
              /\ \A d \in DictKeySet(service_documents) :
                    \/ OwnDocument(t, d)
                    \/ /\ DictHas(service_documents', d)
                       /\ DictGet(service_documents', d) = DictGet(service_documents, d)
              /\ \A c \in DictKeySet(embeddings) :
                    \/ c \in OwnChunkIds(t)
                    \/ /\ DictHas(embeddings', c)
                       /\ DictGet(embeddings', c) = DictGet(embeddings, c)
                       /\ DictGet(documents', c) = DictGet(documents, c)
                       /\ DictGet(metadatas', c) = DictGet(metadatas, c)
              /\ \A k \in DictKeySet(document_index) :
                    \/ k \in OwnIndexKeys(t)
                    \/ /\ DictHas(document_index', k)
                       /\ DictGet(document_index', k) = DictGet(document_index, k)]_vars

\* an upload has failed while the registry holds a READY Document of another
\* upload and the Vector Index holds chunks
C21_Witness ==
    /\ UploadFailed
    /\ ret.document_id # None
    /\ \E d \in DictKeySet(service_documents) :
          d # ret.document_id /\ DictGet(service_documents, d).status = "ready"
    /\ Len(embeddings) > 0

\* the ids of document_ids whose Document exists in the registry, is READY
\* and passes the domain-eligibility check
QualifyingIds(document_ids) ==
    {d \in SeqToSet(document_ids) :
        /\ DictHas(service_documents, d)
        /\ DictGet(service_documents, d).status = "ready"
        /\ IsLegalDocument(DictGet(service_documents, d))}

\* C22: start creates a session whose active_document_ids holds exactly the
\* requested ids whose Document exists, is READY and is domain-eligible; when
\* no requested id qualifies, start raises and the session map is as before.
C22_StartBindsQualifying ==
    ret.op = "start" =>
        IF QualifyingIds(ret.document_ids) = {}
        THEN ret.raised /\ sessions = ret.before
        ELSE /\ ~ret.raised
             /\ DictHas(sessions, ret.session_id)
             /\ SeqToSet(DictGet(sessions, ret.session_id).active_document_ids)
                    = QualifyingIds(ret.document_ids)

\* a start that bound one of the two requested ids and left the other out
C22_Witness ==
    /\ ret.op = "start"
    /\ ~ret.raised
    /\ ret.document_ids = <<"1", "2">>
    /\ DictGet(sessions, ret.session_id).active_document_ids = <<"1">>

\* the ids of the Documents of the registry that are READY and pass the
\* domain-eligibility check
ReadyEligibleIds ==
    {d \in DictKeySet(service_documents) :
        /\ DictGet(service_documents, d).status = "ready"
        /\ IsLegalDocument(DictGet(service_documents, d))}

\* C23: get_or_create returns the session of the map unchanged when the map
\* holds session_id; otherwise it creates a session whose active_document_ids
\* is exactly the ids of the Documents that are READY and domain-eligible at
\* that moment, each once (one such Document gives a list of that one id).
C23_GetOrCreate ==
    ret.op = "get_or_create" =>
        IF ret.requested # None /\ DictHas(ret.before, ret.requested)
        THEN /\ ret.session_id = ret.requested
             /\ ret.session = DictGet(ret.before, ret.requested)
        ELSE /\ ~DictHas(ret.before, ret.session_id)
             /\ SeqToSet(ret.session.active_document_ids) = ReadyEligibleIds
             /\ Len(ret.session.active_document_ids) = Cardinality(ReadyEligibleIds)
             /\ ReadyEligibleIds = {"1"} => ret.session.active_document_ids = <<"1">>

\* a chat turn without a session id created a session while one Document
\* was READY and eligible
C23_Witness ==
    /\ ret.op = "get_or_create"
    /\ ret.requested = None
    /\ ReadyEligibleIds = {"1"}
    /\ ret.session.active_document_ids = <<"1">>
    /\ DictHas(sessions, ret.session_id)

\* C24: add_documents on a session of the map adds an id to
\* active_document_ids and to document_context only if the Document exists,
\* is READY and is domain-eligible, leaves the other ids out, and sets
\* last_activity to the time of the call even when nothing was added; on an
\* unknown session id it returns false and changes nothing.
C24_AddRevalidates ==
    ret.op = "add_documents" =>
        IF ~DictHas(ret.before, ret.session_id)
        THEN ret.value = FALSE /\ sessions = ret.before
        ELSE LET old == DictGet(ret.before, ret.session_id)
                 new == DictGet(sessions, ret.session_id)
                 was == Len(old.active_document_ids)
             IN  /\ ret.value = TRUE
                 /\ SubSeq(new.active_document_ids, 1, was) = old.active_document_ids
                 /\ \A i \in (was + 1)..Len(new.active_document_ids) :
                       new.active_document_ids[i] \in QualifyingIds(ret.document_ids)
                 /\ DictKeySet(new.document_context) \ DictKeySet(old.document_context)
                       \subseteq QualifyingIds(ret.document_ids)
                 /\ new.last_activity = ret.at
                 /\ new.last_activity > old.last_activity

\* an add that bound a second Document to a session
C24_Witness ==
    /\ ret.op = "add_documents"
    /\ ret.value = TRUE
    /\ ret.document_ids = <<"1", "2">>
    /\ DictGet(ret.before, ret.session_id).active_document_ids = <<"1">>
    /\ DictGet(sessions, ret.session_id).active_document_ids = <<"1", "2">>
    /\ DictHas(DictGet(sessions, ret.session_id).document_context, "2")

\* C25: after remove_documents returned true, none of the given ids is in
\* the session's active_document_ids nor a key of its document_context.
C25_RemovedIdsGone ==
    (ret.op = "remove_documents" /\ ret.value) =>
        LET session == DictGet(sessions, ret.session_id)
        IN  \A d \in SeqToSet(ret.document_ids) :
                /\ d \notin SeqToSet(session.active_document_ids)
                /\ ~DictHas(session.document_context, d)

\* C26: no document id occurs more than once in the active_document_ids of
\* a session.
C26_ActiveIdsDistinct ==
    \A k \in 1..Len(sessions) :
        LET ids == sessions[k][2].active_document_ids
        IN  \A i, j \in 1..Len(ids) : ids[i] = ids[j] => i = j

\* C27: the active_document_ids of every session are ids of Documents that
\* exist in the registry with status READY.
C27_ActiveIdsReady ==
    \A k \in 1..Len(sessions) :
        \A d \in SeqToSet(sessions[k][2].active_document_ids) :
            /\ DictHas(service_documents, d)
            /\ DictGet(service_documents, d).status = "ready"

\* C28: whenever no chat turn is under way, so that every mutating session
\* operation that was called has completed, with a disk that accepts every
\* write, the sessions read back from sessions.json are the in-memory map.
C28_SessionsPersisted ==
    NoTurnInFlight => LoadSessions(sessions_file) = sessions

\* the in-memory state of the process and what the last call returned
MemView ==
    <<embeddings, documents, metadatas, document_index, add_call, search_call,
      retrieve_call, ret, service_documents, uuid_count, upload_calls,
      status_log, sessions, now, chat_calls, chunk_call>>

\* a step of the call with a refused write is, for the in-memory state and
\* the result, a step of the same call with an accepted write
Swallowed(refused, accepted) ==
    refused => \E after \in {MemView'} : ENABLED (accepted /\ MemView' = after)

\* C29: a disk write that fails while one of the three stores is persisted
\* is swallowed: the operation returns the same result and leaves the same
\* in-memory state as it does when the write succeeds.
C29_WriteFailureSwallowed ==
    [][/\ \A d \in DictKeySet(document_index) :
             Swallowed(DeleteDocumentChunks(d, "write_error"),
                       DeleteDocumentChunks(d, "ok"))
       /\ Swallowed(ResetCollection("write_error"), ResetCollection("ok"))
       /\ \A d \in DictKeySet(service_documents), s \in SaveOutcomes,
             docsave \in SaveOutcomes :
             Swallowed(DeleteDocument(d, s, docsave), DeleteDocument(d, "ok", "ok"))
       /\ \A document_ids \in DiskLists :
             Swallowed(StartSessionWithDocuments(document_ids, "s1", "write_error"),
                       StartSessionWithDocuments(document_ids, "s1", "ok"))
       /\ \A session_id \in KnownSessionIds, document_ids \in DiskLists :
             /\ Swallowed(AddDocumentsToSession(session_id, document_ids, "write_error"),
                          AddDocumentsToSession(session_id, document_ids, "ok"))
             /\ Swallowed(RemoveDocumentsFromSession(session_id, document_ids,
                                                     "write_error"),
                          RemoveDocumentsFromSession(session_id, document_ids, "ok"))
       /\ \A session_id \in KnownSessionIds :
             Swallowed(DeleteSession(session_id, "write_error"),
                       DeleteSession(session_id, "ok"))
      ]_vars

\* a reset came back with True although its write was refused
C29_Witness ==
    /\ ret.op = "reset"
    /\ ret.value = TRUE
    /\ save_failed
    /\ storage_file = TruncatedFile
    /\ embeddings = <<>>

\* C30: chunk_text returns chunks whose content is not empty, whose
\* chunk_index values are 0, 1, ..., n-1 in output order and whose chunk_id
\* values are pairwise distinct; the empty text gives the empty list.
C30_ChunksWellFormed ==
    ret.op = "chunk_text" =>
        LET chunks == ret.value
        IN  /\ \A i \in 1..Len(chunks) :
                  /\ chunks[i].content # <<>>
                  /\ chunks[i].chunk_index = i - 1
            /\ \A i, j \in 1..Len(chunks) :
                  chunks[i].chunk_id = chunks[j].chunk_id => i = j
            /\ ret.text = <<>> => chunks = <<>>

\* a text of two sentences that did not fit into one chunk
C30_Witness ==
    /\ ret.op = "chunk_text"
    /\ Len(SplitIntoSentences(ret.text)) = 2
    /\ Len(ret.value) = 2
    /\ ret.value[2].chunk_index = 1

\* C31: every chunk chunk_text returns, except possibly the last, is at most
\* chunk_size plus the length of one sentence of the input long (with
\* overlap <= chunk_size).
C31_ChunkLengthBounded ==
    (ret.op = "chunk_text" /\ Overlap <= ChunkSize) =>
        \A i \in 1..(Len(ret.value) - 1) :
            \E k \in 1..Len(SplitIntoSentences(ret.text)) :
                Len(ret.value[i].content)
                    <= ChunkSize + Len(SplitIntoSentences(ret.text)[k])

\* a chunk that is not the last and overruns chunk_size: one sentence longer
\* than chunk_size, emitted whole
C31_Witness ==
    /\ ret.op = "chunk_text"
    /\ Len(ret.value) >= 2
    /\ Len(ret.value[1].content) > ChunkSize

\* C32: of two consecutive chunks, when the content of the earlier one has
\* at least `overlap` characters, the content of the later one begins with
\* the last `overlap` characters of the content of the earlier one.
C32_OverlapCarried ==
    ret.op = "chunk_text" =>
        \A i \in 1..(Len(ret.value) - 1) :
            LET earlier == ret.value[i].content
                later == ret.value[i + 1].content
            IN  Len(earlier) >= Overlap =>
                    /\ Len(later) >= Overlap
                    /\ SubSeq(later, 1, Overlap)
                           = SubSeq(earlier, Len(earlier) - Overlap + 1, Len(earlier))

\* the turns that completed successfully on the session session_id
CompletedTurns(session_id) ==
    {t \in 1..MaxTurns : chat_calls[t] = ChatDone(session_id, "ok")}

\* the roles and contents of the messages of a session, in order
Transcript(session) ==
    [i \in 1..Len(session.messages) |->
        <<session.messages[i].role, session.messages[i].content>>]

\* C33: once two chat turns for the same session id have both completed
\* successfully, however they interleaved at their awaits, the session holds
\* the user message and the assistant message of each, and message_count has
\* grown by two for every completed turn (by 4 for the two).
C33_NoLostUpdate ==
    \A i \in 1..Len(sessions) :
        LET session == sessions[i][2]
            turns == CompletedTurns(sessions[i][1])
        IN  Cardinality(turns) >= 2 =>
                /\ \A t \in turns :
                       /\ <<"user", Message(t)>> \in SeqToSet(Transcript(session))
                       /\ <<"assistant", Answer(Message(t))>>
                              \in SeqToSet(Transcript(session))
                /\ session.message_count = 2 * Cardinality(turns)
                /\ Cardinality(turns) = 2 => session.message_count = 4

\* two turns on session "s1" completed after both had appended their user
\* message before either reply was appended
C33_Witness ==
    /\ CompletedTurns("s1") = {1, 2}
    /\ DictHas(sessions, "s1")
    /\ Transcript(DictGet(sessions, "s1"))
           = << <<"user", Message(1)>>, <<"user", Message(2)>>,
                <<"assistant", Answer(Message(1))>>,
                <<"assistant", Answer(Message(2))>> >>
    /\ DictGet(sessions, "s1").message_count = 4

\* C34: in every session's message list the messages alternate user,
\* assistant: a user message that is not the last one is immediately followed
\* by the reply generated for it, and every assistant message immediately
\* follows the user message it answers, also when turns interleave.
C34_MessagesAlternate ==
    \A i \in 1..Len(sessions) :
        LET transcript == Transcript(sessions[i][2])
        IN  \A k \in 1..Len(transcript) :
                IF transcript[k][1] = "user"
                THEN k < Len(transcript) =>
                         transcript[k + 1] = <<"assistant", Answer(transcript[k][2])>>
                ELSE /\ k > 1
                     /\ transcript[k - 1][1] = "user"
                     /\ transcript[k][2] = Answer(transcript[k - 1][2])

\* C35: whenever no chat turn is in flight for a session, its message_count
\* equals the length of its messages list, also after a turn that failed
\* because the completion provider raised.
C35_CountMatchesMessages ==
    \A i \in 1..Len(sessions) :
        (\A t \in 1..MaxTurns :
            chat_calls[t].pc \in {"classify", "retrieve", "generate"}
                => chat_calls[t].session_id # sessions[i][1])
            => sessions[i][2].message_count = Len(sessions[i][2].messages)

\* C36: in every reachable state the key set of a session's document_context
\* equals the set of the ids in its active_document_ids.
C36_ContextMatchesActive ==
    \A i \in 1..Len(sessions) :
        DictKeySet(sessions[i][2].document_context)
            = SeqToSet(sessions[i][2].active_document_ids)

\* C37: a start under an explicit session id that the map already holds
\* replaces that session: the session under the id has no messages,
\* message_count 0 and exactly the documents validated by this call, and
\* every other session of the map is as it was.
C37_StartReplaces ==
    (ret.op = "start" /\ ~ret.raised /\ DictHas(ret.before, ret.session_id)) =>
        LET new == DictGet(sessions, ret.session_id)
        IN  /\ new.messages = <<>>
            /\ new.message_count = 0
            /\ SeqToSet(new.active_document_ids) = QualifyingIds(ret.document_ids)
            /\ DictKeySet(new.document_context) = QualifyingIds(ret.document_ids)
            /\ DictKeys(sessions) = DictKeys(ret.before)
            /\ \A other \in DictKeySet(ret.before) \ {ret.session_id} :
                   DictGet(sessions, other) = DictGet(ret.before, other)

\* a start replaced a session that had messages and other documents, while
\* the map held a second session
C37_Witness ==
    /\ ret.op = "start"
    /\ ~ret.raised
    /\ DictHas(ret.before, ret.session_id)
    /\ DictGet(ret.before, ret.session_id).messages # <<>>
    /\ DictGet(ret.before, ret.session_id).active_document_ids
           # DictGet(sessions, ret.session_id).active_document_ids
    /\ Len(ret.before) = 2
    /\ DictGet(sessions, ret.session_id).messages = <<>>

\* C38: a search result never holds the same chunk twice (a chunk id is its
\* document id with its chunk index), whatever upserts and deletes made the
\* index and whatever the scope.
C38_NoChunkTwice ==
    (ret.op = "search" /\ ~ret.raised /\ ~ret.empty) =>
        \A i, j \in 1..Len(ret.value) :
            i < j =>
                <<ret.value[i].metadata.document_id, ret.value[i].metadata.chunk_index>>
                    # <<ret.value[j].metadata.document_id,
                        ret.value[j].metadata.chunk_index>>

\* C39: an upsert that returns failure (no chunks, the provider raising, or
\* fewer vectors than chunks) changes none of the four maps: the step in
\* which add_document_chunks returns False leaves them as they were (the
\* steps before it, up to the await, never write them).
C39_FailedUpsertNoChange ==
    [][(/\ ret'.op = "add"
        /\ ret'.value = FALSE
        /\ add_call' = Idle
        /\ add_call.pc = "encode_batch" \/ ret'.chunks = <<>>)
           => Store' = Store]_vars

\* C40: every upload that has registered a Document eventually returns or
\* raises, and a Document of the registry is in UPLOADING or PROCESSING only
\* while the upload that created it is under way: once the upload has
\* returned or raised, its Document is READY or ERROR.
C40_UploadsComplete ==
    /\ [](\A d \in DictKeySet(service_documents) :
             DictGet(service_documents, d).status \in {"uploading", "processing"}
                 => \E t \in 1..MaxUploads : OwnDocument(t, d))
    /\ \A t \in 1..MaxUploads :
           (upload_calls[t].pc \in {"save_file", "encode_batch"})
               ~> (upload_calls[t] = Done)

\* an upload raised after its Document had been registered, and the
\* Document is in the registry with status ERROR
C40_Witness ==
    /\ ret.op = "upload"
    /\ ret.raised
    /\ ret.document_id # None
    /\ DictHas(service_documents, ret.document_id)
    /\ DictGet(service_documents, ret.document_id).status = "error"
    /\ \E t \in 1..MaxUploads : upload_calls[t] = Done

====
